---- MODULE Spec2Model ----
(***************************************************************************)
(* langchain-camb: the task poller of CambBaseTool (tools/base.py) and the *)
(* translated-TTS result resolver and output encoder                       *)
(* (tools/translated_tts.py), as state machines.                           *)
(*                                                                         *)
(* Python values are modelled as follows.  A status payload is a record    *)
(* whose has_* fields say whether the attribute exists (hasattr/getattr);  *)
(* bytes are sequences of integers 0..255; text that the code inspects     *)
(* character by character (URLs, content types, base64) is a sequence of   *)
(* one-character strings; seconds are integers.                            *)
(***************************************************************************)
EXTENDS Integers, Sequences, FiniteSets, TLC

VARIABLES
    tool,       \* the tool instance's fields: max_poll_attempts, poll_interval
    task_id,    \* the task_id argument of the poll calls
    run_id,     \* the run_id keyword argument of the poll calls
    statuses,   \* what the status endpoint has answered so far, by call index
    pc,         \* per poller: where its coroutine / thread is
    attempt,    \* per poller: the loop variable of `for attempt in range(..)`
    trace,      \* per poller: the fetches and sleeps it made, in order
    elapsed,    \* per poller: seconds it has spent sleeping
    outcome,    \* per poller: how the call ended
    output_format,  \* per variant: the output_format argument of _run / _arun
    requests,   \* per variant: the HTTP GETs the resolver issued, in order
    message_read,   \* per variant: whether the resolver has read status.message
    audio,      \* per variant: (audio_data, audio_format) the resolver returned
    result,     \* per variant: what _run / _arun returned or raised
    files,      \* the temporary files created so far: path and content
    args,       \* per variant: the tool invoked and the input of the invocation
    sdk,        \* per variant: the calls made on the CAMB client, in order
    value,      \* per variant: the document a tool returned as JSON text
    toolkit,    \* the fields of a CambToolkit
    environ,    \* os.environ: the value of CAMB_API_KEY
    got,        \* what CambToolkit.get_tools returned or raised
    instances,  \* per tool instance: max_poll_attempts and poll_interval
    calls,      \* per concurrent poll call: its frame and what it has done
    held,       \* per thread: the call that keeps it busy during a delay
    given,      \* the arguments a function of the resolver is applied to
    yielded,    \* what came back: the function's value, the iterator's chunks
    sync_client,    \* the tool instance's _sync_client field
    async_client,   \* the tool instance's _async_client field
    constructed,    \* the clients constructed so far, in order
    threads     \* per invocation of the instance: where it is in the property

pollVars == <<task_id, run_id, statuses, attempt, trace, elapsed>>
resolveVars == <<output_format, requests, message_read, audio, result, files>>
invokeVars == <<args, sdk, value>>
toolkitVars == <<toolkit, environ, got>>
concurVars == <<instances, calls, held>>
pureVars == <<given, yielded>>
clientVars == <<sync_client, async_client, constructed, threads>>
\* what a step of a tool invocation leaves alone
apart == <<toolkitVars, concurVars, pureVars, clientVars>>
vars == <<tool, pc, outcome, pollVars, resolveVars, invokeVars, apart>>

----------------------------------------------------------------------------
\* Bounds of the model

\* largest max_poll_attempts a tool instance is built with
MaxAttempts == 3

----------------------------------------------------------------------------
\* Program constants

DefaultMaxPollAttempts == 60
DefaultPollInterval == 2

\* Python's None where an int is expected (run_id: Optional[int])
None == -1

\* the two variants: async def _poll_task_status / def _poll_task_status_sync
Variants == {"async", "sync"}

----------------------------------------------------------------------------
\* Status payloads

\* status.message: absent or None, a str, a dict, or a value of another type
NoMessage == [kind |-> "none", str |-> << >>, dict |-> << >>]
StrMessage(text) == [kind |-> "str", str |-> text, dict |-> << >>]
DictMessage(d) == [kind |-> "dict", str |-> << >>, dict |-> d]
OtherMessage == [kind |-> "other", str |-> << >>, dict |-> << >>]

Payload(hs, s, he, e) ==
    [has_status |-> hs, status |-> s, has_error |-> he, error |-> e,
     run_id |-> None, message |-> NoMessage]

\* payloads the status endpoint may answer with
StatusPayloads ==
    { Payload(FALSE, "", FALSE, ""),
      Payload(TRUE, "pending", FALSE, ""),
      Payload(TRUE, "COMPLETED", FALSE, ""),
      Payload(TRUE, "Completed", FALSE, ""),
      Payload(TRUE, "success", FALSE, ""),
      Payload(TRUE, "completed", FALSE, ""),
      Payload(TRUE, "SUCCESS", FALSE, ""),
      Payload(TRUE, "failed", TRUE, "boom"),
      Payload(TRUE, "failed", FALSE, ""),
      Payload(TRUE, "FAILED", FALSE, ""),
      Payload(TRUE, "error", TRUE, "quota") }

NoPayload == Payload(FALSE, "<none>", FALSE, "<none>")

----------------------------------------------------------------------------
\* Outcomes of a poll call and the events a poller leaves in its trace

Running == [kind |-> "running", status |-> NoPayload, error_msg |-> << >>,
            task_id |-> "", budget |-> 0]

\* return status
Returned(status) ==
    [Running EXCEPT !.kind = "return", !.status = status]

\* raise RuntimeError(f"Task failed: {error_msg}"): the message is kept as
\* the parts of the f-string
TaskFailed(error_msg) ==
    [Running EXCEPT !.kind = "RuntimeError",
                    !.error_msg = <<"Task failed: ", error_msg>>]

\* the ValueError of time.sleep
SleepFailed ==
    [Running EXCEPT !.kind = "ValueError",
                    !.error_msg = <<"sleep length must be non-negative">>]

\* raise TimeoutError(f"Task {task_id} did not complete within {budget} seconds")
RaisedTimeout(tid, budget) ==
    [Running EXCEPT !.kind = "TimeoutError", !.task_id = tid, !.budget = budget]

FetchEvent(call, status) ==
    [op |-> "fetch", task_id |-> call.task_id, run_id |-> call.run_id,
     status |-> status, seconds |-> 0]

SleepEvent(seconds) ==
    [op |-> "sleep", task_id |-> "", run_id |-> None,
     status |-> NoPayload, seconds |-> seconds]

----------------------------------------------------------------------------
\* async def _poll_task_status (base.py 83-120)

\* the if/elif after the fetch: the outcome it ends the call with, or Running
\* when control falls through to the sleep
PollBody_OnlyCompleted(status) ==
    IF status.has_status
    THEN IF status.status \in {"completed"}
         THEN Returned(status)
         ELSE IF status.status \in {"failed", "FAILED", "error"}
              THEN TaskFailed(IF status.has_error THEN status.error
                                                  ELSE "Unknown error")
              ELSE Running
    ELSE Running

PollBody_IgnoresError(status) ==
    IF status.has_status
    THEN IF status.status \in {"completed", "SUCCESS"}
         THEN Returned(status)
         ELSE IF status.status \in {"failed", "FAILED", "error"}
              THEN TaskFailed("Unknown error")
              ELSE Running
    ELSE Running

PollBody_AnyCase(status) ==
    IF status.has_status
    THEN IF status.status \in {"completed", "SUCCESS", "COMPLETED",
                                "Completed", "success"}
         THEN Returned(status)
         ELSE IF status.status \in {"failed", "FAILED", "error"}
              THEN TaskFailed(IF status.has_error THEN status.error
                                                  ELSE "Unknown error")
              ELSE Running
    ELSE Running

PollBody(status) ==
    IF status.has_status
    THEN IF status.status \in {"completed", "SUCCESS"}
         THEN Returned(status)
         ELSE IF status.status \in {"failed", "FAILED", "error"}
              THEN TaskFailed(IF status.has_error THEN status.error
                                                  ELSE "Unknown error")
              ELSE Running
    ELSE Running

\* get_status_fn(task_id, run_id=run_id): the arguments of the call
PollCall(tid, rid) == [task_id |-> tid, run_id |-> rid]

\* `for attempt in range(self.max_poll_attempts)` has no further iteration
\* once `done` iterations have run
PollExhausted_OffByOne(done, max_poll_attempts) ==
    done >= max_poll_attempts - 1

PollExhausted_OneMore(done, max_poll_attempts) ==
    done >= max_poll_attempts + 1

PollExhausted(done, max_poll_attempts) ==
    done >= max_poll_attempts

\* the TimeoutError raised after the loop
PollTimeout_NoInterval(tid, max_poll_attempts, poll_interval) ==
    RaisedTimeout(tid, max_poll_attempts)

PollTimeout(tid, max_poll_attempts, poll_interval) ==
    RaisedTimeout(tid, max_poll_attempts * poll_interval)

\* await asyncio.sleep(delay): returns at once when delay <= 0.  The seconds
\* it lasts, or -1 when it raises.
AsyncioSleep(delay) ==
    IF delay <= 0 THEN 0 ELSE delay

----------------------------------------------------------------------------
\* def _poll_task_status_sync (base.py 122-161)

PollBodySync_NoDefault(status) ==
    IF status.has_status
    THEN IF status.status \in {"completed", "SUCCESS"}
         THEN Returned(status)
         ELSE IF status.status \in {"failed", "FAILED", "error"}
              THEN TaskFailed(IF status.has_error THEN status.error
                                                  ELSE "None")
              ELSE Running
    ELSE Running

PollBodySync(status) ==
    IF status.has_status
    THEN IF status.status \in {"completed", "SUCCESS"}
         THEN Returned(status)
         ELSE IF status.status \in {"failed", "FAILED", "error"}
              THEN TaskFailed(IF status.has_error THEN status.error
                                                  ELSE "Unknown error")
              ELSE Running
    ELSE Running

PollCallSync(tid, rid) == [task_id |-> tid, run_id |-> rid]

PollExhaustedSync(done, max_poll_attempts) ==
    done >= max_poll_attempts

PollTimeoutSync(tid, max_poll_attempts, poll_interval) ==
    RaisedTimeout(tid, max_poll_attempts * poll_interval)

\* time.sleep(secs): raises ValueError when secs < 0.  The seconds it lasts,
\* or -1 when it raises.
TimeSleep(secs) ==
    IF secs < 0 THEN -1 ELSE secs

----------------------------------------------------------------------------
\* The steps of a poller p: "async" runs _poll_task_status, "sync" runs
\* _poll_task_status_sync.

Body(p, status) ==
    IF p = "async" THEN PollBody(status) ELSE PollBodySync(status)

Exhausted(p) ==
    IF p = "async" THEN PollExhausted(attempt[p], tool.max_poll_attempts)
    ELSE PollExhaustedSync(attempt[p], tool.max_poll_attempts)

Call(p) ==
    IF p = "async" THEN PollCall(task_id, run_id)
    ELSE PollCallSync(task_id, run_id)

SleepFor(p, secs) ==
    IF p = "async" THEN AsyncioSleep(secs) ELSE TimeSleep(secs)

\* status = [await] get_status_fn(task_id, run_id=run_id) and the if/elif
\* that follows it.  The n-th call of the status endpoint is answered by
\* statuses[n]; an answer not yet fixed is chosen here, among the payloads
\* the endpoint may answer with.
FetchFrom(p, payloads) ==
    /\ pc[p] = "loop"
    /\ ~Exhausted(p)
    /\ \E status \in payloads :
        /\ IF attempt[p] + 1 <= Len(statuses)
           THEN status = statuses[attempt[p] + 1] /\ UNCHANGED statuses
           ELSE statuses' = Append(statuses, status)
        /\ trace' = [trace EXCEPT
                        ![p] = Append(@, FetchEvent(Call(p), status))]
        /\ outcome' = [outcome EXCEPT ![p] = Body(p, status)]
        /\ pc' = [pc EXCEPT
                    ![p] = IF Body(p, status) = Running THEN "sleep" ELSE "done"]
    /\ UNCHANGED <<apart, tool, task_id, run_id, attempt, elapsed,
                   resolveVars, invokeVars>>

Fetch(p) == FetchFrom(p, StatusPayloads)

\* [await asyncio | time].sleep(self.poll_interval), then the next iteration
Sleep(p) ==
    /\ pc[p] = "sleep"
    /\ IF SleepFor(p, tool.poll_interval) < 0
       THEN /\ outcome' = [outcome EXCEPT ![p] = SleepFailed]
            /\ pc' = [pc EXCEPT ![p] = "done"]
            /\ UNCHANGED <<trace, elapsed, attempt>>
       ELSE /\ trace' = [trace EXCEPT
                            ![p] = Append(@, SleepEvent(tool.poll_interval))]
            /\ elapsed' = [elapsed EXCEPT
                            ![p] = @ + SleepFor(p, tool.poll_interval)]
            /\ attempt' = [attempt EXCEPT ![p] = @ + 1]
            /\ pc' = [pc EXCEPT ![p] = "loop"]
            /\ UNCHANGED outcome
    /\ UNCHANGED <<apart, tool, task_id, run_id, statuses, resolveVars,
                   invokeVars>>

\* range(self.max_poll_attempts) is exhausted: raise TimeoutError(...)
Timeout(p) ==
    /\ pc[p] = "loop"
    /\ Exhausted(p)
    /\ outcome' = [outcome EXCEPT ![p] =
          IF p = "async"
          THEN PollTimeout(task_id, tool.max_poll_attempts, tool.poll_interval)
          ELSE PollTimeoutSync(task_id, tool.max_poll_attempts,
                               tool.poll_interval)]
    /\ pc' = [pc EXCEPT ![p] = "done"]
    /\ UNCHANGED <<apart, tool, pollVars, resolveVars, invokeVars>>

----------------------------------------------------------------------------
\* Text and bytes

Http == <<"h", "t", "t", "p">>
DefaultBase == <<"h", "t", "t", "p", "s", ":", "/", "/", "c", "l", "i", "e", "n", "t", ".", "c", "a", "m", "b", ".", "a", "i", "/", "a", "p", "i", "s">>
CustomBase == <<"h", "t", "t", "p", "s", ":", "/", "/", "e", "u", ".", "c", "a", "m", "b", ".", "t", "e", "s", "t">>
TtsResult == <<"/", "t", "t", "s", "-", "r", "e", "s", "u", "l", "t", "/">>

UrlA == <<"h", "t", "t", "p", "s", ":", "/", "/", "c", "d", "n", "/", "a">>
UrlB == <<"h", "t", "t", "p", ":", "/", "/", "c", "d", "n", "/", "b">>
UrlC == <<"h", "t", "t", "p", "s", ":", "/", "/", "c", "d", "n", "/", "c">>
FtpUrl == <<"f", "t", "p", ":", "/", "/", "c", "d", "n", "/", "f">>

UpperCase == <<"A", "B", "C", "D", "E", "F", "G", "H", "I", "J", "K", "L", "M", "N", "O", "P", "Q", "R", "S", "T", "U", "V", "W", "X", "Y", "Z">>
LowerCase == <<"a", "b", "c", "d", "e", "f", "g", "h", "i", "j", "k", "l", "m", "n", "o", "p", "q", "r", "s", "t", "u", "v", "w", "x", "y", "z">>

\* str(n) for n >= 0
Digit(d) == <<"0", "1", "2", "3", "4", "5", "6", "7", "8", "9">>[d + 1]

RECURSIVE Str(_)
Str(n) == IF n < 10 THEN <<Digit(n)>> ELSE Str(n \div 10) \o <<Digit(n % 10)>>

\* s.startswith(prefix), for str and for bytes
StartsWith(s, prefix) ==
    /\ Len(s) >= Len(prefix)
    /\ SubSeq(s, 1, Len(prefix)) = prefix

\* sub in s
Contains(s, sub) ==
    \E i \in 1 .. (Len(s) - Len(sub) + 1) :
        SubSeq(s, i, i + Len(sub) - 1) = sub

\* s.lower()
Lower(s) ==
    [i \in 1 .. Len(s) |->
        IF \E j \in 1 .. 26 : UpperCase[j] = s[i]
        THEN LowerCase[CHOOSE j \in 1 .. 26 : UpperCase[j] = s[i]]
        ELSE s[i]]

----------------------------------------------------------------------------
\* CambTranslatedTTSTool._detect_audio_format (translated_tts.py 258-286)

_detect_audio_format_TypeFirst(audio_data, content_type) ==
    LET ct == Lower(content_type) IN
    IF Contains(ct, <<"w", "a", "v">>) \/ Contains(ct, <<"w", "a", "v", "e">>) THEN "wav"
    ELSE IF Contains(ct, <<"m", "p", "e", "g">>) \/ Contains(ct, <<"m", "p", "3">>) THEN "mp3"
    ELSE IF Contains(ct, <<"f", "l", "a", "c">>) THEN "flac"
    ELSE IF Contains(ct, <<"o", "g", "g">>) THEN "ogg"
    ELSE IF StartsWith(audio_data, <<82, 73, 70, 70>>) THEN "wav"
    ELSE IF \/ StartsWith(audio_data, <<255, 251>>)
            \/ StartsWith(audio_data, <<255, 250>>)
            \/ StartsWith(audio_data, <<73, 68, 51>>) THEN "mp3"
    ELSE IF StartsWith(audio_data, <<102, 76, 97, 67>>) THEN "flac"
    ELSE IF StartsWith(audio_data, <<79, 103, 103, 83>>) THEN "ogg"
    ELSE "pcm"

\* the content-type string tested for ogg before flac
_detect_audio_format_OggBeforeFlac(audio_data, content_type) ==
    IF StartsWith(audio_data, <<82, 73, 70, 70>>) THEN "wav"
    ELSE IF \/ StartsWith(audio_data, <<255, 251>>)
            \/ StartsWith(audio_data, <<255, 250>>)
            \/ StartsWith(audio_data, <<73, 68, 51>>) THEN "mp3"
    ELSE IF StartsWith(audio_data, <<102, 76, 97, 67>>) THEN "flac"
    ELSE IF StartsWith(audio_data, <<79, 103, 103, 83>>) THEN "ogg"
    ELSE LET ct == Lower(content_type) IN
         IF Contains(ct, <<"w", "a", "v">>) \/ Contains(ct, <<"w", "a", "v", "e">>) THEN "wav"
         ELSE IF Contains(ct, <<"m", "p", "e", "g">>) \/ Contains(ct, <<"m", "p", "3">>) THEN "mp3"
         ELSE IF Contains(ct, <<"o", "g", "g">>) THEN "ogg"
         ELSE IF Contains(ct, <<"f", "l", "a", "c">>) THEN "flac"
         ELSE "pcm"

\* the test for the bytes FF FA left out
_detect_audio_format_OneFrameSync(audio_data, content_type) ==
    IF StartsWith(audio_data, <<82, 73, 70, 70>>) THEN "wav"
    ELSE IF \/ StartsWith(audio_data, <<255, 251>>)
            \/ StartsWith(audio_data, <<73, 68, 51>>) THEN "mp3"
    ELSE IF StartsWith(audio_data, <<102, 76, 97, 67>>) THEN "flac"
    ELSE IF StartsWith(audio_data, <<79, 103, 103, 83>>) THEN "ogg"
    ELSE LET ct == Lower(content_type) IN
         IF Contains(ct, <<"w", "a", "v">>) \/ Contains(ct, <<"w", "a", "v", "e">>) THEN "wav"
         ELSE IF Contains(ct, <<"m", "p", "e", "g">>) \/ Contains(ct, <<"m", "p", "3">>) THEN "mp3"
         ELSE IF Contains(ct, <<"f", "l", "a", "c">>) THEN "flac"
         ELSE IF Contains(ct, <<"o", "g", "g">>) THEN "ogg"
         ELSE "pcm"

_detect_audio_format(audio_data, content_type) ==
    IF StartsWith(audio_data, <<82, 73, 70, 70>>) THEN "wav"
    ELSE IF \/ StartsWith(audio_data, <<255, 251>>)
            \/ StartsWith(audio_data, <<255, 250>>)
            \/ StartsWith(audio_data, <<73, 68, 51>>) THEN "mp3"
    ELSE IF StartsWith(audio_data, <<102, 76, 97, 67>>) THEN "flac"
    ELSE IF StartsWith(audio_data, <<79, 103, 103, 83>>) THEN "ogg"
    ELSE LET ct == Lower(content_type) IN
         IF Contains(ct, <<"w", "a", "v">>) \/ Contains(ct, <<"w", "a", "v", "e">>) THEN "wav"
         ELSE IF Contains(ct, <<"m", "p", "e", "g">>) \/ Contains(ct, <<"m", "p", "3">>) THEN "mp3"
         ELSE IF Contains(ct, <<"f", "l", "a", "c">>) THEN "flac"
         ELSE IF Contains(ct, <<"o", "g", "g">>) THEN "ogg"
         ELSE "pcm"

----------------------------------------------------------------------------
\* CambTranslatedTTSTool._add_wav_header (translated_tts.py 312-340)

\* struct.pack("<I", n) and struct.pack("<H", n)
LE32(n) == <<n % 256, (n \div 256) % 256, (n \div 65536) % 256,
             (n \div 16777216) % 256>>
LE16(n) == <<n % 256, (n \div 256) % 256>>

sample_rate == 24000
num_channels == 1
bits_per_sample == 16
byte_rate == (sample_rate * num_channels * bits_per_sample) \div 8
block_align == (num_channels * bits_per_sample) \div 8

\* the RIFF chunk size taken for the size of the whole file
_add_wav_header_FileSize(pcm_data) ==
    <<82, 73, 70, 70>> \o LE32(44 + Len(pcm_data)) \o <<87, 65, 86, 69>> \o <<102, 109, 116, 32>>
    \o LE32(16) \o LE16(1) \o LE16(num_channels) \o LE32(sample_rate)
    \o LE32(byte_rate) \o LE16(block_align) \o LE16(bits_per_sample)
    \o <<100, 97, 116, 97>> \o LE32(Len(pcm_data)) \o pcm_data

_add_wav_header(pcm_data) ==
    <<82, 73, 70, 70>> \o LE32(36 + Len(pcm_data)) \o <<87, 65, 86, 69>> \o <<102, 109, 116, 32>>
    \o LE32(16) \o LE16(1) \o LE16(num_channels) \o LE32(sample_rate)
    \o LE32(byte_rate) \o LE16(block_align) \o LE16(bits_per_sample)
    \o <<100, 97, 116, 97>> \o LE32(Len(pcm_data)) \o pcm_data

----------------------------------------------------------------------------
\* base64.b64encode(audio_data).decode("utf-8")

B64Alphabet == <<"A", "B", "C", "D", "E", "F", "G", "H", "I", "J", "K", "L", "M", "N", "O", "P", "Q", "R", "S", "T", "U", "V", "W", "X", "Y", "Z", "a", "b", "c", "d", "e", "f", "g", "h", "i", "j", "k", "l", "m", "n", "o", "p", "q", "r", "s", "t", "u", "v", "w", "x", "y", "z", "0", "1", "2", "3", "4", "5", "6", "7", "8", "9", "+", "/">>

RECURSIVE b64encode(_)
b64encode(bytes) ==
    IF Len(bytes) = 0 THEN << >>
    ELSE IF Len(bytes) = 1 THEN
        <<B64Alphabet[bytes[1] \div 4 + 1],
          B64Alphabet[(bytes[1] % 4) * 16 + 1], "=", "=">>
    ELSE IF Len(bytes) = 2 THEN
        <<B64Alphabet[bytes[1] \div 4 + 1],
          B64Alphabet[(bytes[1] % 4) * 16 + bytes[2] \div 16 + 1],
          B64Alphabet[(bytes[2] % 16) * 4 + 1], "=">>
    ELSE
        <<B64Alphabet[bytes[1] \div 4 + 1],
          B64Alphabet[(bytes[1] % 4) * 16 + bytes[2] \div 16 + 1],
          B64Alphabet[(bytes[2] % 16) * 4 + bytes[3] \div 64 + 1],
          B64Alphabet[(bytes[3] % 64) + 1]>>
        \o b64encode(SubSeq(bytes, 4, Len(bytes)))

----------------------------------------------------------------------------
\* CambTranslatedTTSTool._format_output (translated_tts.py 288-310)

\* ext_map.get(audio_format, ".wav")
ext_map(audio_format) ==
    CASE audio_format = "wav" -> ".wav"
      [] audio_format = "mp3" -> ".mp3"
      [] audio_format = "flac" -> ".flac"
      [] audio_format = "ogg" -> ".ogg"
      [] audio_format = "pcm" -> ".wav"
      [] OTHER -> ".wav"

\* lines 296-303: the bytes to deliver and the file extension
_format_output_NeverWraps(audio_data, audio_format) ==
    [data |-> audio_data, extension |-> ext_map(audio_format)]

_format_output(audio_data, audio_format) ==
    IF audio_format = "pcm" /\ audio_data # << >>
    THEN [data |-> _add_wav_header(audio_data), extension |-> ext_map("wav")]
    ELSE [data |-> audio_data, extension |-> ext_map(audio_format)]

----------------------------------------------------------------------------
\* The HTTP side of the resolver: what httpx's client.get may answer

RiffBody == <<82, 73, 70, 70, 36, 0, 87, 65, 86, 69>>
Bodies ==
    { << >>, RiffBody, <<73, 68, 51, 4>>, <<255, 251, 144>>, <<255, 250>>,
      <<102, 76, 97, 67, 0>>, <<79, 103, 103, 83, 0>>, <<1, 2, 3>>, <<82, 73, 70>>, <<255, 252>> }

ContentTypes ==
    { <<"a", "u", "d", "i", "o", "/", "w", "a", "v">>, <<"A", "u", "d", "i", "o", "/", "X", "-", "W", "A", "V", "E">>, <<"a", "u", "d", "i", "o", "/", "m", "p", "e", "g">>, <<"A", "U", "D", "I", "O", "/", "M", "P", "3">>,
      <<"a", "u", "d", "i", "o", "/", "f", "l", "a", "c">>, <<"a", "p", "p", "l", "i", "c", "a", "t", "i", "o", "n", "/", "o", "g", "g">>, <<"a", "p", "p", "l", "i", "c", "a", "t", "i", "o", "n", "/", "j", "s", "o", "n">> }

Response(status_code, content, content_type) ==
    [kind |-> "response", status_code |-> status_code, content |-> content,
     content_type |-> content_type]

\* responses: content_type << >> is a response without content-type header
Responses ==
    { Response(200, b, << >>) : b \in Bodies }
    \cup { Response(200, b, t) : b \in {<<1, 2, 3>>, << >>, RiffBody},
                                 t \in ContentTypes }
    \cup { Response(404, b, <<"a", "p", "p", "l", "i", "c", "a", "t", "i", "o", "n", "/", "j", "s", "o", "n">>) : b \in {<<123, 34, 101, 34, 58, 49, 125>>, RiffBody} }

\* client.get raised (httpx.TransportError)
TransportError ==
    [kind |-> "error", status_code |-> 0, content |-> << >>,
     content_type |-> << >>]

Request(path, url, headers, response) ==
    [path |-> path, url |-> url, headers |-> headers, response |-> response]

----------------------------------------------------------------------------
\* CambTranslatedTTSTool._get_audio_from_status (translated_tts.py 156-205)
\* and _get_audio_from_status_async (207-256)

\* `if run_id:` for run_id = getattr(status, "run_id", None)
Truthy(n) == n # None /\ n # 0

\* lines 168-172: the tts-result URL
ResultUrl(client_wrapper, rid) ==
    IF client_wrapper.has_base_url
    THEN client_wrapper.base_url \o TtsResult \o Str(rid)
    ELSE DefaultBase \o TtsResult \o Str(rid)

\* message.get(key): the value, or None (here << >>, as falsy as "")
DictGet(d, key) == IF key \in DOMAIN d THEN d[key] ELSE << >>

\* a or b
Or(a, b) == IF a # << >> THEN a ELSE b

\* lines 188-194: the URL found in status.message, << >> when there is none
UrlFromMessage_UrlKeyFirst(message) ==
    CASE message.kind = "dict" ->
            Or(DictGet(message.dict, "url"),
               Or(DictGet(message.dict, "audio_url"),
                  DictGet(message.dict, "output_url")))
      [] message.kind = "str" ->
            IF StartsWith(message.str, Http) THEN message.str ELSE << >>
      [] OTHER -> << >>

UrlFromMessage(message) ==
    CASE message.kind = "dict" ->
            Or(DictGet(message.dict, "output_url"),
               Or(DictGet(message.dict, "audio_url"),
                  DictGet(message.dict, "url")))
      [] message.kind = "str" ->
            IF StartsWith(message.str, Http) THEN message.str ELSE << >>
      [] OTHER -> << >>

\* lines 239-245, the same in the async variant
UrlFromMessageAsync(message) ==
    CASE message.kind = "dict" ->
            Or(DictGet(message.dict, "output_url"),
               Or(DictGet(message.dict, "audio_url"),
                  DictGet(message.dict, "url")))
      [] message.kind = "str" ->
            IF StartsWith(message.str, Http) THEN message.str ELSE << >>
      [] OTHER -> << >>

\* line 179 / 230: `if response.status_code == 200`
PrimaryAccepts_Any(status_code) == TRUE

PrimaryAccepts(status_code) == status_code = 200

PrimaryAcceptsAsync_Never(status_code) == FALSE

PrimaryAcceptsAsync(status_code) == status_code = 200

\* line 205 / 256: `return b"", "pcm"`
NoAudio == [data |-> << >>, format |-> "pcm"]

Audio(response) ==
    [data |-> response.content,
     format |-> _detect_audio_format(response.content, response.content_type)]

NotYet == [data |-> << >>, format |-> ""]

NoResult == [kind |-> "none", path |-> [name |-> 0, suffix |-> ""],
             text |-> << >>, error |-> ""]

\* the status passed to the resolver: the one the poll returned
StatusOf(p) == outcome[p].status

UrlOf(p) ==
    IF p = "async" THEN UrlFromMessageAsync(StatusOf(p).message)
    ELSE UrlFromMessage(StatusOf(p).message)

Accepts(p, status_code) ==
    IF p = "async" THEN PrimaryAcceptsAsync(status_code)
    ELSE PrimaryAccepts(status_code)

\* lines 165-166: no run_id, or a falsy one: on to the fallback
PrimarySkip(p) ==
    /\ pc[p] = "resolve"
    /\ ~Truthy(StatusOf(p).run_id)
    /\ pc' = [pc EXCEPT ![p] = "fallback"]
    /\ UNCHANGED <<apart, tool, outcome, pollVars, resolveVars, invokeVars>>

\* lines 166-184: GET <base>/tts-result/<run_id> with the x-api-key header
PrimaryGet(p) ==
    /\ pc[p] = "resolve"
    /\ Truthy(StatusOf(p).run_id)
    /\ \E response \in Responses \cup {TransportError} :
        /\ requests' = [requests EXCEPT ![p] = Append(@,
              Request("primary",
                      ResultUrl(tool.client_wrapper, StatusOf(p).run_id),
                      {<<"x-api-key", tool.api_key>>}, response))]
        /\ IF response.kind = "error"
           THEN /\ pc' = [pc EXCEPT ![p] = "raised"]
                /\ result' = [result EXCEPT
                      ![p] = [NoResult EXCEPT !.kind = "error",
                                              !.error = "TransportError"]]
                /\ UNCHANGED audio
           ELSE IF Accepts(p, response.status_code)
           THEN /\ pc' = [pc EXCEPT ![p] = "format"]
                /\ audio' = [audio EXCEPT ![p] = Audio(response)]
                /\ UNCHANGED result
           ELSE /\ pc' = [pc EXCEPT ![p] = "fallback"]
                /\ UNCHANGED <<audio, result>>
    /\ UNCHANGED <<apart, tool, outcome, pollVars, output_format,
                   message_read, files, invokeVars>>

\* lines 187-196 and 205: no URL in status.message: return b"", "pcm"
FallbackNoUrl(p) ==
    /\ pc[p] = "fallback"
    /\ UrlOf(p) = << >>
    /\ message_read' = [message_read EXCEPT ![p] = TRUE]
    /\ audio' = [audio EXCEPT ![p] = NoAudio]
    /\ pc' = [pc EXCEPT ![p] = "format"]
    /\ UNCHANGED <<apart, tool, outcome, pollVars, output_format, requests,
                   result, files, invokeVars>>

\* lines 187-203: GET the URL found in status.message, without headers, and
\* return its body whatever the status code
FallbackGet(p) ==
    /\ pc[p] = "fallback"
    /\ UrlOf(p) # << >>
    /\ message_read' = [message_read EXCEPT ![p] = TRUE]
    /\ \E response \in Responses \cup {TransportError} :
        /\ requests' = [requests EXCEPT ![p] = Append(@,
              Request("fallback", UrlOf(p), {}, response))]
        /\ IF response.kind = "error"
           THEN /\ pc' = [pc EXCEPT ![p] = "raised"]
                /\ result' = [result EXCEPT
                      ![p] = [NoResult EXCEPT !.kind = "error",
                                              !.error = "TransportError"]]
                /\ UNCHANGED audio
           ELSE /\ pc' = [pc EXCEPT ![p] = "format"]
                /\ audio' = [audio EXCEPT ![p] = Audio(response)]
                /\ UNCHANGED result
    /\ UNCHANGED <<apart, tool, outcome, pollVars, output_format, files,
                   invokeVars>>

\* line 308: tempfile.NamedTemporaryFile(suffix=extension, delete=False)
\* creates a file that did not exist before (mkstemp opens it with O_EXCL);
\* the name of the n-th file created is n
NamedTemporaryFile_Reuses(existing, suffix) ==
    [name |-> 1, suffix |-> suffix]

NamedTemporaryFile(existing, suffix) ==
    [name |-> Len(existing) + 1, suffix |-> suffix]

\* _run line 114 / _arun line 154: _format_output(audio_data, output_format,
\* audio_format): base64 text, or a new temporary file (delete=False) that
\* holds the bytes when its path is returned
FormatOutput(p) ==
    /\ pc[p] = "format"
    /\ LET out == _format_output(audio[p].data, audio[p].format) IN
        IF output_format[p] = "base64"
        THEN /\ result' = [result EXCEPT
                   ![p] = [NoResult EXCEPT !.kind = "base64",
                                           !.text = b64encode(out.data)]]
             /\ UNCHANGED files
        ELSE LET path == NamedTemporaryFile(files, out.extension) IN
             /\ files' = Append(files, [path |-> path, content |-> out.data])
             /\ result' = [result EXCEPT
                   ![p] = [NoResult EXCEPT !.kind = "path", !.path = path]]
    /\ pc' = [pc EXCEPT ![p] = "end"]
    /\ UNCHANGED <<apart, tool, outcome, pollVars, output_format, requests,
                   message_read, audio, invokeVars>>

----------------------------------------------------------------------------
\* Statuses a poll may hand to the resolver

Messages ==
    { NoMessage, OtherMessage,
      StrMessage(UrlB), StrMessage(<<"r", "e", "a", "d", "y">>),
      StrMessage(FtpUrl), StrMessage(<<"h", "t", "t", "p", "d">>),
      DictMessage([output_url |-> UrlA, audio_url |-> UrlB, url |-> UrlC]),
      DictMessage([audio_url |-> UrlB, url |-> UrlC]),
      DictMessage([url |-> UrlC]),
      DictMessage([output_url |-> << >>, url |-> UrlC]),
      DictMessage([detail |-> UrlA]) }

ResolverStatuses ==
    { [Payload(TRUE, "completed", FALSE, "")
          EXCEPT !.run_id = r, !.message = m] :
        r \in {None, 0, 42}, m \in Messages }

ClientWrappers ==
    { [has_base_url |-> FALSE, base_url |-> << >>],
      [has_base_url |-> TRUE, base_url |-> CustomBase] }

ApiKey == "key-1"

----------------------------------------------------------------------------
\* Python values of the tools' inputs and of the provider's objects

\* an Optional[str]
PyNone == [t |-> "None", s |-> ""]
PyStr(s) == [t |-> "str", s |-> s]

\* `if x:` for an Optional[str]
TruthyStr(x) == x.t = "str" /\ x.s # ""

\* the input of a call that is not a tool invocation through its schema
NoArgs == [tool |-> "", audio_url |-> PyNone, audio_file_path |-> PyNone]

NoValue == [kind |-> "none"]

\* no toolkit is in use
NoTools == [kind |-> "none", tools |-> << >>]

NoToolkit ==
    /\ toolkit = [api_key |-> PyNone]
    /\ environ = PyNone
    /\ got = NoTools

\* no function is applied apart from an invocation
NoPure ==
    /\ given = << >>
    /\ yielded = << >>

\* _sync_client / _async_client is None; a client object is known by the
\* place of its construction among all constructions
NoClient == 0

\* no invocations share a tool instance
NoClients ==
    /\ sync_client = NoClient
    /\ async_client = NoClient
    /\ constructed = << >>
    /\ threads = << >>

\* no concurrent poll calls are under way
NoCalls ==
    /\ instances = << >>
    /\ calls = << >>
    /\ held = << >>

NotInvoked ==
    /\ args = [p \in Variants |-> NoArgs]
    /\ sdk = [p \in Variants |-> << >>]
    /\ value = [p \in Variants |-> NoValue]

----------------------------------------------------------------------------
\* Both pollers are called on one tool instance with the same arguments and
\* the same status endpoint.

Init ==
    /\ tool \in [max_poll_attempts : -1 .. MaxAttempts,
                 poll_interval : {-1, 0, 2},
                 api_key : {ApiKey},
                 client_wrapper : {[has_base_url |-> FALSE, base_url |-> << >>]}]
    /\ task_id = "task-1"
    /\ run_id \in {None, 7}
    /\ statuses = << >>
    /\ pc = [p \in Variants |-> "loop"]
    /\ attempt = [p \in Variants |-> 0]
    /\ trace = [p \in Variants |-> << >>]
    /\ elapsed = [p \in Variants |-> 0]
    /\ outcome = [p \in Variants |-> Running]
    /\ output_format = [p \in Variants |-> "file_path"]
    /\ requests = [p \in Variants |-> << >>]
    /\ message_read = [p \in Variants |-> FALSE]
    /\ audio = [p \in Variants |-> NotYet]
    /\ result = [p \in Variants |-> NoResult]
    /\ files = << >>
    /\ NoToolkit
    /\ NoPure
    /\ NoClients
    /\ NoCalls
    /\ NotInvoked

Next ==
    \E p \in Variants : Fetch(p) \/ Sleep(p) \/ Timeout(p)

Spec == Init /\ [][Next]_vars

\* a poller whose fetches and sleeps return goes on to its next step: the
\* coroutine is resumed by the event loop, the thread by its scheduler
PollStep(p) == Fetch(p) \/ Sleep(p) \/ Timeout(p)

SpecLive ==
    Init /\ [][Next]_vars /\ \A p \in Variants : WF_vars(PollStep(p))

----------------------------------------------------------------------------
\* One variant of the translated-TTS tool resolves and encodes the status
\* its poll has returned.

InitResolve ==
    /\ tool \in [max_poll_attempts : {DefaultMaxPollAttempts},
                 poll_interval : {DefaultPollInterval},
                 api_key : {ApiKey},
                 client_wrapper : ClientWrappers]
    /\ task_id = "task-1"
    /\ run_id = None
    /\ statuses = << >>
    /\ attempt = [p \in Variants |-> 0]
    /\ trace = [p \in Variants |-> << >>]
    /\ elapsed = [p \in Variants |-> 0]
    /\ \E v \in Variants, status \in ResolverStatuses :
        /\ pc = [p \in Variants |-> IF p = v THEN "resolve" ELSE "idle"]
        /\ outcome = [p \in Variants |->
                        IF p = v THEN Returned(status) ELSE Running]
    /\ output_format \in [Variants -> {"file_path", "base64"}]
    /\ \A p \in Variants : pc[p] = "idle" => output_format[p] = "file_path"
    /\ requests = [p \in Variants |-> << >>]
    /\ message_read = [p \in Variants |-> FALSE]
    /\ audio = [p \in Variants |-> NotYet]
    /\ result = [p \in Variants |-> NoResult]
    /\ files = << >>
    /\ NoToolkit
    /\ NoPure
    /\ NoClients
    /\ NoCalls
    /\ NotInvoked

NextResolve ==
    \E p \in Variants :
        \/ PrimarySkip(p)
        \/ PrimaryGet(p)
        \/ FallbackNoUrl(p)
        \/ FallbackGet(p)
        \/ FormatOutput(p)

SpecResolve == InitResolve /\ [][NextResolve]_vars

----------------------------------------------------------------------------
\* Two calls of the translated-TTS tool on one instance, _run in a thread and
\* _arun on the event loop, each resolving and encoding the status its own
\* poll has returned.

EncodeStatuses ==
    { [Payload(TRUE, "completed", FALSE, "")
          EXCEPT !.run_id = 42],
      [Payload(TRUE, "SUCCESS", FALSE, "")
          EXCEPT !.message = DictMessage([url |-> UrlC])] }

InitEncode ==
    /\ tool \in [max_poll_attempts : {DefaultMaxPollAttempts},
                 poll_interval : {DefaultPollInterval},
                 api_key : {ApiKey},
                 client_wrapper : {[has_base_url |-> FALSE,
                                    base_url |-> << >>]}]
    /\ task_id = "task-1"
    /\ run_id = None
    /\ statuses = << >>
    /\ attempt = [p \in Variants |-> 0]
    /\ trace = [p \in Variants |-> << >>]
    /\ elapsed = [p \in Variants |-> 0]
    /\ pc = [p \in Variants |-> "resolve"]
    /\ \E status \in [Variants -> EncodeStatuses] :
          outcome = [p \in Variants |-> Returned(status[p])]
    /\ output_format \in [Variants -> {"file_path", "base64"}]
    /\ requests = [p \in Variants |-> << >>]
    /\ message_read = [p \in Variants |-> FALSE]
    /\ audio = [p \in Variants |-> NotYet]
    /\ result = [p \in Variants |-> NoResult]
    /\ files = << >>
    /\ NoToolkit
    /\ NoPure
    /\ NoClients
    /\ NoCalls
    /\ NotInvoked

SpecEncode == InitEncode /\ [][NextResolve]_vars

----------------------------------------------------------------------------
\* Invocations of the polling tools: BaseTool.invoke / ainvoke validates the
\* input against args_schema and then calls _run / _arun

TranscriptionArgs(audio_url, audio_file_path) ==
    [tool |-> "camb_transcription", language |-> 1,
     audio_url |-> audio_url, audio_file_path |-> audio_file_path]

AudioSeparationArgs(audio_url, audio_file_path) ==
    [tool |-> "camb_audio_separation",
     audio_url |-> audio_url, audio_file_path |-> audio_file_path]

TranslatedTTSArgs(formality) ==
    [tool |-> "camb_translated_tts", text |-> "Hello", source_language |-> 1,
     target_language |-> 2, voice_id |-> 147320, formality |-> formality]

TextToSoundArgs(duration, audio_type) ==
    [tool |-> "camb_text_to_sound", prompt |-> "rain",
     duration |-> duration, audio_type |-> audio_type]

\* TranscriptionInput.validate_audio_source (transcription.py 33-42): the
\* message of the ValueError it raises, "" when it returns self
TranscriptionInput_validate_audio_source_AllowsBoth(audio_url, audio_file_path) ==
    IF ~TruthyStr(audio_url) /\ ~TruthyStr(audio_file_path)
    THEN "Either audio_url or audio_file_path must be provided."
    ELSE ""

TranscriptionInput_validate_audio_source(audio_url, audio_file_path) ==
    IF ~TruthyStr(audio_url) /\ ~TruthyStr(audio_file_path)
    THEN "Either audio_url or audio_file_path must be provided."
    ELSE IF TruthyStr(audio_url) /\ TruthyStr(audio_file_path)
    THEN "Provide only one of audio_url or audio_file_path, not both."
    ELSE ""

\* AudioSeparationInput.validate_audio_source (audio_separation.py 30-39)
AudioSeparationInput_validate_audio_source(audio_url, audio_file_path) ==
    IF ~TruthyStr(audio_url) /\ ~TruthyStr(audio_file_path)
    THEN "Either audio_url or audio_file_path must be provided."
    ELSE IF TruthyStr(audio_url) /\ TruthyStr(audio_file_path)
    THEN "Provide only one of audio_url or audio_file_path, not both."
    ELSE ""

\* args_schema(**tool_input): the validators of the tool's input schema
args_schema(input) ==
    CASE input.tool = "camb_transcription" ->
            TranscriptionInput_validate_audio_source(
                input.audio_url, input.audio_file_path)
      [] input.tool = "camb_audio_separation" ->
            AudioSeparationInput_validate_audio_source(
                input.audio_url, input.audio_file_path)
      [] OTHER -> ""

Raised(error) == [NoResult EXCEPT !.kind = "error", !.error = error]

\* a call on the CAMB client
SdkCall(api, method, kwargs) ==
    [api |-> api, method |-> method, kwargs |-> kwargs]

\* a client call together with what it answered
SdkCallAnswered(api, method, kwargs, answer) ==
    [api |-> api, method |-> method, kwargs |-> kwargs, answer |-> answer]

\* kwargs = {}
EmptyKwargs == [k \in {} |-> ""]

\* the input is parsed with the schema; a ValueError of a validator reaches
\* the caller as pydantic's ValidationError and _run / _arun is not called
Validate(p) ==
    /\ pc[p] = "invoke"
    /\ IF args_schema(args[p]) # ""
       THEN /\ pc' = [pc EXCEPT ![p] = "rejected"]
            /\ result' = [result EXCEPT ![p] = Raised("ValidationError")]
       ELSE /\ pc' = [pc EXCEPT ![p] = "run"]
            /\ UNCHANGED result
    /\ UNCHANGED <<apart, tool, outcome, pollVars, output_format, requests,
                   message_read, audio, files, invokeVars>>

\* CambTranscriptionTool._run lines 86-101 / _arun 127-143: the create call
CreateTranscription(p) ==
    /\ pc[p] = "run"
    /\ args[p].tool = "camb_transcription"
    /\ IF TruthyStr(args[p].audio_url)
       THEN /\ sdk' = [sdk EXCEPT ![p] = Append(@,
                  SdkCall("transcription", "create_transcription",
                          [language |-> args[p].language,
                           audio_url |-> args[p].audio_url.s]))]
            /\ pc' = [pc EXCEPT ![p] = "loop"]
            /\ UNCHANGED result
       ELSE IF TruthyStr(args[p].audio_file_path)
       THEN \E readable \in BOOLEAN :
            IF readable
            THEN /\ sdk' = [sdk EXCEPT ![p] = Append(@,
                       SdkCall("transcription", "create_transcription",
                               [language |-> args[p].language,
                                media_file |-> args[p].audio_file_path.s]))]
                 /\ pc' = [pc EXCEPT ![p] = "loop"]
                 /\ UNCHANGED result
            ELSE /\ pc' = [pc EXCEPT ![p] = "raised"]
                 /\ result' = [result EXCEPT ![p] = Raised("OSError")]
                 /\ UNCHANGED sdk
       ELSE /\ pc' = [pc EXCEPT ![p] = "raised"]
            /\ result' = [result EXCEPT ![p] = Raised("ValueError")]
            /\ UNCHANGED sdk
    /\ UNCHANGED <<apart, tool, outcome, pollVars, output_format, requests,
                   message_read, audio, files, args, value>>

\* CambAudioSeparationTool._run lines 78-90 / _arun 117-130: the create call;
\* audio_url is not put into kwargs
CreateAudioSeparation(p) ==
    /\ pc[p] = "run"
    /\ args[p].tool = "camb_audio_separation"
    /\ IF TruthyStr(args[p].audio_file_path)
       THEN \E readable \in BOOLEAN :
            IF readable
            THEN /\ sdk' = [sdk EXCEPT ![p] = Append(@,
                       SdkCall("audio_separation", "create_audio_separation",
                               [media_file |-> args[p].audio_file_path.s]))]
                 /\ pc' = [pc EXCEPT ![p] = "loop"]
                 /\ UNCHANGED result
            ELSE /\ pc' = [pc EXCEPT ![p] = "raised"]
                 /\ result' = [result EXCEPT ![p] = Raised("OSError")]
                 /\ UNCHANGED sdk
       ELSE /\ sdk' = [sdk EXCEPT ![p] = Append(@,
                  SdkCall("audio_separation", "create_audio_separation",
                          EmptyKwargs))]
            /\ pc' = [pc EXCEPT ![p] = "loop"]
            /\ UNCHANGED result
    /\ UNCHANGED <<apart, tool, outcome, pollVars, output_format, requests,
                   message_read, audio, files, args, value>>

\* CambTranslatedTTSTool._run lines 91-103 / _arun 131-143: the create call
CreateTranslatedTTS(p) ==
    /\ pc[p] = "run"
    /\ args[p].tool = "camb_translated_tts"
    /\ sdk' = [sdk EXCEPT ![p] = Append(@,
          SdkCall("translated_tts", "create_translated_tts",
                  IF Truthy(args[p].formality)
                  THEN [text |-> args[p].text, voice_id |-> args[p].voice_id,
                        source_language |-> args[p].source_language,
                        target_language |-> args[p].target_language,
                        formality |-> args[p].formality]
                  ELSE [text |-> args[p].text, voice_id |-> args[p].voice_id,
                        source_language |-> args[p].source_language,
                        target_language |-> args[p].target_language]))]
    /\ pc' = [pc EXCEPT ![p] = "loop"]
    /\ UNCHANGED <<apart, tool, outcome, pollVars, resolveVars, args, value>>

\* CambTextToSoundTool._run lines 80-89 / _arun 120-129: the create call
CreateTextToSound(p) ==
    /\ pc[p] = "run"
    /\ args[p].tool = "camb_text_to_sound"
    /\ sdk' = [sdk EXCEPT ![p] = Append(@,
          SdkCall("text_to_audio", "create_text_to_audio",
                  IF Truthy(args[p].duration) /\ TruthyStr(args[p].audio_type)
                  THEN [prompt |-> args[p].prompt,
                        duration |-> args[p].duration,
                        audio_type |-> args[p].audio_type.s]
                  ELSE IF Truthy(args[p].duration)
                  THEN [prompt |-> args[p].prompt,
                        duration |-> args[p].duration]
                  ELSE IF TruthyStr(args[p].audio_type)
                  THEN [prompt |-> args[p].prompt,
                        audio_type |-> args[p].audio_type.s]
                  ELSE [prompt |-> args[p].prompt]))]
    /\ pc' = [pc EXCEPT ![p] = "loop"]
    /\ UNCHANGED <<apart, tool, outcome, pollVars, resolveVars, args, value>>

PollEnded_GoesOnAfterError(p) ==
    /\ pc[p] = "done"
    /\ pc' = [pc EXCEPT ![p] =
          IF args[p].tool = "camb_translated_tts" THEN "resolve"
          ELSE IF args[p].tool = "camb_text_to_sound" THEN "stream"
          ELSE "result"]
    /\ UNCHANGED <<apart, tool, outcome, pollVars, resolveVars,
                   invokeVars>>

\* status = [await] self._poll_task_status[_sync](...): the poll returns the
\* status to _run / _arun, or its exception ends the invocation
PollEnded(p) ==
    /\ pc[p] = "done"
    /\ IF outcome[p].kind = "return"
       THEN /\ pc' = [pc EXCEPT ![p] =
                  IF args[p].tool = "camb_translated_tts" THEN "resolve"
                  ELSE IF args[p].tool = "camb_text_to_sound" THEN "stream"
                  ELSE "result"]
            /\ UNCHANGED result
       ELSE /\ pc' = [pc EXCEPT ![p] = "raised"]
            /\ result' = [result EXCEPT ![p] = Raised(outcome[p].kind)]
    /\ UNCHANGED <<apart, tool, outcome, pollVars, output_format, requests,
                   message_read, audio, files, invokeVars>>

----------------------------------------------------------------------------
\* CambTranscriptionTool: the result and _format_result
\* (transcription.py 108-113, 150-157, 159-189)

\* a segment of a transcription: getattr(seg, "speaker", None) is None both
\* for a segment without the attribute and for one whose speaker is None
Segment(start, end, text, has_speaker, speaker) ==
    [start |-> start, end |-> end, text |-> text,
     has_speaker |-> has_speaker, speaker |-> speaker]

\* the object get_transcription_result returns; speakers_attr tells whether
\* the attribute speakers is absent, None or a list
Transcription(text, has_segments, segments, speakers_attr, speakers) ==
    [text |-> text, has_segments |-> has_segments, segments |-> segments,
     speakers_attr |-> speakers_attr, speakers |-> speakers]

\* list(s) for a set s: its elements, each once, in an order that depends on
\* the hashes of the elements
ListOfSet(S) ==
    { q \in [1 .. Cardinality(S) -> S] :
        \A i, j \in 1 .. Cardinality(S) : q[i] = q[j] => i = j }

\* lines 169-177: the segment dictionaries
SegmentDicts(transcription) ==
    IF transcription.has_segments
    THEN [k \in 1 .. Len(transcription.segments) |->
            LET seg == transcription.segments[k] IN
            [start |-> seg.start, end |-> seg.end, text |-> seg.text,
             speaker |-> IF seg.has_speaker THEN seg.speaker ELSE PyNone]]
    ELSE << >>

\* lines 183-187: speakers.add(seg["speaker"]) for the segments whose speaker
\* is truthy
ScannedSpeakers(segments) ==
    { segments[k].speaker.s :
        k \in {i \in 1 .. Len(segments) : TruthyStr(segments[i].speaker)} }

\* lines 179-187, without a set: a label is listed once per segment
SpeakerLists_NoSet(transcription) ==
    IF transcription.speakers_attr = "list"
    THEN {transcription.speakers}
    ELSE LET segments == SegmentDicts(transcription)
             labelled == SelectSeq(segments,
                            LAMBDA seg : TruthyStr(seg.speaker))
         IN  {[k \in 1 .. Len(labelled) |-> labelled[k].speaker.s]}

\* lines 179-187: the lists result["speakers"] may be.  list(None) raises
\* TypeError: there is no list then
SpeakerLists(transcription) ==
    IF transcription.speakers_attr = "list"
    THEN {transcription.speakers}
    ELSE IF transcription.speakers_attr = "None"
    THEN {}
    ELSE IF SegmentDicts(transcription) # << >>
    THEN ListOfSet(ScannedSpeakers(SegmentDicts(transcription)))
    ELSE {<< >>}

\* the JSON text json.dumps returns, kept as the document it encodes
JsonTranscription(text, segments, speakers) ==
    [kind |-> "json", text |-> text, segments |-> segments,
     speakers |-> speakers]

\* what get_transcription_result may return
SegmentKinds ==
    { Segment(0, 1, "hi", TRUE, PyStr("A")),
      Segment(1, 2, "yo", TRUE, PyStr("B")),
      Segment(2, 3, "hm", TRUE, PyNone),
      Segment(3, 4, "ok", FALSE, PyNone),
      Segment(4, 5, "eh", TRUE, PyStr("")) }

SegmentLists ==
    {<< >>} \cup {<<a>> : a \in SegmentKinds}
            \cup {<<a, b>> : a, b \in SegmentKinds}

SpeakerAttrs ==
    { <<"absent", << >>>>, <<"None", << >>>>, <<"list", << >>>>,
      <<"list", <<"A">>>>, <<"list", <<"A", "B">>>>,
      <<"list", <<"A", "A">>>> }

Transcriptions ==
    { Transcription("hi yo", TRUE, segments, sp[1], sp[2]) :
        segments \in SegmentLists, sp \in SpeakerAttrs }
    \cup { Transcription("", FALSE, << >>, sp[1], sp[2]) : sp \in SpeakerAttrs }

\* run_id = status.run_id, get_transcription_result(run_id), _format_result
TranscriptionResult(p) ==
    /\ pc[p] = "result"
    /\ args[p].tool = "camb_transcription"
    /\ \E transcription \in Transcriptions :
        /\ sdk' = [sdk EXCEPT ![p] = Append(@,
              SdkCallAnswered("transcription", "get_transcription_result",
                              [run_id |-> StatusOf(p).run_id],
                              transcription))]
        /\ IF SpeakerLists(transcription) = {}
           THEN /\ pc' = [pc EXCEPT ![p] = "raised"]
                /\ result' = [result EXCEPT ![p] = Raised("TypeError")]
                /\ UNCHANGED value
           ELSE \E speakers \in SpeakerLists(transcription) :
                /\ pc' = [pc EXCEPT ![p] = "end"]
                /\ result' = [result EXCEPT
                      ![p] = [NoResult EXCEPT !.kind = "json"]]
                /\ value' = [value EXCEPT ![p] =
                      JsonTranscription(transcription.text,
                                        SegmentDicts(transcription),
                                        speakers)]
    /\ UNCHANGED <<apart, tool, outcome, pollVars, output_format, requests,
                   message_read, audio, files, args>>

----------------------------------------------------------------------------
\* Tools whose result is streamed, chunk by chunk: the result of
\* CambTextToSoundTool (text_to_sound.py 92-105, 132-147, 149-156) and
\* CambTTSTool (tts.py 105-124, 148-167, 169-182)

\* the chunks joined last first
RECURSIVE join_LastFirst(_)
join_LastFirst(audio_chunks) ==
    IF audio_chunks = << >> THEN << >>
    ELSE join_LastFirst(Tail(audio_chunks)) \o Head(audio_chunks)

\* b"".join(audio_chunks)
RECURSIVE join(_)
join(audio_chunks) ==
    IF audio_chunks = << >> THEN << >>
    ELSE Head(audio_chunks) \o join(Tail(audio_chunks))

MaxChunks == 2
Chunks == {<< >>, <<1, 2>>, <<3>>}

\* what the iterator of the client call will yield, and whether it raises
\* after the last chunk instead of ending
Streams ==
    UNION { [1 .. n -> Chunks] : n \in 0 .. MaxChunks }

StreamInputs ==
    { [tool |-> "camb_tts", chunks |-> c, raises |-> r,
       speech_model |-> m, user_instructions |-> u] :
         c \in Streams, r \in BOOLEAN,
         m \in {"mars-flash", "mars-instruct"},
         u \in {PyNone, PyStr("calm")} }
    \cup { [tool |-> "camb_text_to_sound", chunks |-> c, raises |-> r,
            speech_model |-> "", user_instructions |-> PyNone] :
              c \in Streams, r \in BOOLEAN }

\* TTSInput.output_format and TextToSoundInput.output_format
OutputFormats(name) ==
    IF name = "camb_tts" THEN {"file_path", "base64", "bytes"}
    ELSE {"file_path", "base64"}

\* tts.py lines 105-115: the keyword arguments of text_to_speech.tts
TtsKwargs(input) ==
    IF TruthyStr(input.user_instructions)
       /\ input.speech_model = "mars-instruct"
    THEN [text |-> "Hello", language |-> "en-us", voice_id |-> 147320,
          speech_model |-> input.speech_model,
          output_configuration |-> [format |-> "wav"],
          voice_settings |-> [speed |-> 1],
          user_instructions |-> input.user_instructions.s]
    ELSE [text |-> "Hello", language |-> "en-us", voice_id |-> 147320,
          speech_model |-> input.speech_model,
          output_configuration |-> [format |-> "wav"],
          voice_settings |-> [speed |-> 1]]

\* tts.py line 119 / 162, text_to_sound.py line 100 / 140: the one client
\* call whose iterator is then drained
OpenStream(p) ==
    /\ pc[p] = "stream"
    /\ sdk' = [sdk EXCEPT ![p] = Append(@,
          IF given.tool = "camb_tts"
          THEN SdkCall("text_to_speech", "tts", TtsKwargs(given))
          ELSE SdkCall("text_to_audio", "get_text_to_audio_result",
                       [run_id |-> StatusOf(p).run_id]))]
    /\ pc' = [pc EXCEPT ![p] = "drain"]
    /\ UNCHANGED <<apart, tool, outcome, pollVars, resolveVars, args, value>>

\* audio_chunks.append(chunk) for the next chunk of the iterator
AppendChunk(p) ==
    /\ pc[p] = "drain"
    /\ Len(yielded[p]) < Len(given.chunks)
    /\ yielded' = [yielded EXCEPT
          ![p] = Append(@, given.chunks[Len(yielded[p]) + 1])]
    /\ UNCHANGED <<toolkitVars, concurVars, clientVars, given, tool, pc,
                   outcome, pollVars, resolveVars, invokeVars>>

\* the iterator raises: _run / _arun is left with the exception
StreamRaises(p) ==
    /\ pc[p] = "drain"
    /\ Len(yielded[p]) = Len(given.chunks)
    /\ given.raises
    /\ result' = [result EXCEPT ![p] = Raised("ApiError")]
    /\ pc' = [pc EXCEPT ![p] = "raised"]
    /\ UNCHANGED <<apart, tool, outcome, pollVars, output_format, requests,
                   message_read, audio, files, invokeVars>>

\* the iterator is exhausted: b"".join(audio_chunks) and _format_output
StreamEnds(p) ==
    /\ pc[p] = "drain"
    /\ Len(yielded[p]) = Len(given.chunks)
    /\ ~given.raises
    /\ LET audio_data == join(yielded[p]) IN
        /\ audio' = [audio EXCEPT ![p] = [data |-> audio_data, format |-> ""]]
        /\ IF output_format[p] = "bytes"
           THEN /\ result' = [result EXCEPT
                      ![p] = [kind |-> "bytes", path |-> NoResult.path,
                              text |-> << >>, error |-> "",
                              bytes |-> audio_data]]
                /\ UNCHANGED files
           ELSE IF output_format[p] = "base64"
           THEN /\ result' = [result EXCEPT
                      ![p] = [NoResult EXCEPT !.kind = "base64",
                                              !.text = b64encode(audio_data)]]
                /\ UNCHANGED files
           ELSE LET path == NamedTemporaryFile(files, ".wav") IN
                /\ files' = Append(files,
                                   [path |-> path, content |-> audio_data])
                /\ result' = [result EXCEPT
                      ![p] = [NoResult EXCEPT !.kind = "path",
                                              !.path = path]]
    /\ pc' = [pc EXCEPT ![p] = "end"]
    /\ UNCHANGED <<apart, tool, outcome, pollVars, output_format, requests,
                   message_read, invokeVars>>

----------------------------------------------------------------------------
\* CambAudioSeparationTool: the result and _format_result
\* (audio_separation.py 92-102, 132-144, 146-186)

\* an attribute of the object get_audio_separation_run_info returns: absent,
\* None, a str or bytes
Absent == [t |-> "absent", s |-> "", b |-> << >>]
AttrNone == [t |-> "None", s |-> "", b |-> << >>]
AttrStr(s) == [t |-> "str", s |-> s, b |-> << >>]
AttrBytes(b) == [t |-> "bytes", s |-> "", b |-> b]

\* hasattr(result, name)
HasAttr(attr) == attr.t # "absent"

SeparationResult(v_url, v, b_url, b, instrumental_url, voice_url) ==
    [vocals_url |-> v_url, vocals |-> v,
     background_url |-> b_url, background |-> b,
     instrumental_url |-> instrumental_url, voice_url |-> voice_url]

\* a value of the JSON document: null, a string, or the name of a file
JsonNull == [t |-> "null", s |-> "", path |-> NoResult.path]
JsonStr(s) == [t |-> "str", s |-> s, path |-> NoResult.path]
JsonPath(path) == [t |-> "path", s |-> "", path |-> path]

\* output[...] = <the attribute>
JsonOf(attr) == IF attr.t = "str" THEN JsonStr(attr.s) ELSE JsonNull

\* lines 148-186: the files after the call and the document returned
AudioSeparation_format_result(r, existing) ==
    LET writes_vocals == ~HasAttr(r.vocals_url) /\ r.vocals.t = "bytes"
        vocals_name == NamedTemporaryFile(existing, "_vocals.wav")
        after_vocals ==
            IF writes_vocals
            THEN Append(existing,
                        [path |-> vocals_name, content |-> r.vocals.b])
            ELSE existing
        vocals ==
            IF HasAttr(r.vocals_url) THEN JsonOf(r.vocals_url)
            ELSE IF writes_vocals THEN JsonPath(vocals_name)
            ELSE IF HasAttr(r.vocals) THEN JsonOf(r.vocals)
            ELSE JsonNull
        writes_background ==
            ~HasAttr(r.background_url) /\ r.background.t = "bytes"
        background_name ==
            NamedTemporaryFile(after_vocals, "_background.wav")
        after_background ==
            IF writes_background
            THEN Append(after_vocals,
                        [path |-> background_name,
                         content |-> r.background.b])
            ELSE after_vocals
        background ==
            IF HasAttr(r.background_url) THEN JsonOf(r.background_url)
            ELSE IF writes_background THEN JsonPath(background_name)
            ELSE IF HasAttr(r.background) THEN JsonOf(r.background)
            ELSE JsonNull
    IN  [files |-> after_background,
         document |->
            [kind |-> "json",
             vocals |-> IF HasAttr(r.voice_url) THEN JsonOf(r.voice_url)
                        ELSE vocals,
             background |-> IF HasAttr(r.instrumental_url)
                            THEN JsonOf(r.instrumental_url)
                            ELSE background,
             status |-> "completed"]]

\* what get_audio_separation_run_info may return
SeparationResults ==
    { SeparationResult(AttrStr("https://cdn/v.wav"), Absent,
                       AttrStr("https://cdn/b.wav"), Absent, Absent, Absent),
      SeparationResult(Absent, AttrBytes(<<1, 2>>),
                       Absent, AttrBytes(<<3>>), Absent, Absent),
      SeparationResult(Absent, AttrBytes(<<1, 2>>),
                       AttrStr("https://cdn/b.wav"), Absent, Absent, Absent),
      SeparationResult(Absent, Absent, Absent, Absent, Absent, Absent),
      SeparationResult(Absent, Absent, Absent, Absent,
                       AttrStr("https://cdn/i.wav"),
                       AttrStr("https://cdn/voice.wav")),
      SeparationResult(Absent, AttrBytes(<<1, 2>>), Absent, Absent,
                       Absent, AttrStr("https://cdn/voice.wav")),
      SeparationResult(Absent, AttrNone, Absent, AttrStr("b.wav"),
                       Absent, Absent),
      SeparationResult(AttrStr("https://cdn/v.wav"), AttrBytes(<<1, 2>>),
                       AttrNone, AttrBytes(<<3>>), Absent, Absent) }

\* run_id = status.run_id, get_audio_separation_run_info(run_id),
\* _format_result
AudioSeparationResult(p) ==
    /\ pc[p] = "result"
    /\ args[p].tool = "camb_audio_separation"
    /\ \E separation_result \in SeparationResults :
        LET out == AudioSeparation_format_result(separation_result, files) IN
        /\ sdk' = [sdk EXCEPT ![p] = Append(@,
              SdkCall("audio_separation", "get_audio_separation_run_info",
                      [run_id |-> StatusOf(p).run_id]))]
        /\ files' = out.files
        /\ value' = [value EXCEPT ![p] = out.document]
        /\ result' = [result EXCEPT ![p] = [NoResult EXCEPT !.kind = "json"]]
    /\ pc' = [pc EXCEPT ![p] = "end"]
    /\ UNCHANGED <<apart, tool, outcome, pollVars, output_format, requests,
                   message_read, audio, args>>

----------------------------------------------------------------------------
\* One invocation of a polling tool, through invoke (_run) or ainvoke
\* (_arun), from the validation of its input to its result

\* what the status endpoints may answer to a tool's poll
TaskPayloads ==
    { Payload(FALSE, "", FALSE, ""),
      Payload(TRUE, "pending", FALSE, ""),
      Payload(TRUE, "failed", TRUE, "boom") }
    \cup EncodeStatuses

FetchTask(p) == FetchFrom(p, TaskPayloads)

AudioSources ==
    { PyNone, PyStr(""), PyStr("https://cdn/in.mp3") }

AudioFiles ==
    { PyNone, PyStr(""), PyStr("/tmp/in.mp3") }

Invocations ==
    { TranscriptionArgs(u, f) : u \in AudioSources, f \in AudioFiles }
    \cup { AudioSeparationArgs(u, f) : u \in AudioSources, f \in AudioFiles }
    \cup { TranslatedTTSArgs(formality) : formality \in {None, 1} }
    \cup { TextToSoundArgs(d, a) : d \in {None, 30},
                                   a \in {PyNone, PyStr("music")} }

InitInvoke ==
    /\ tool \in [max_poll_attempts : 1 .. 2,
                 poll_interval : {DefaultPollInterval},
                 api_key : {ApiKey},
                 client_wrapper : {[has_base_url |-> FALSE,
                                    base_url |-> << >>]}]
    /\ task_id = "task-1"
    /\ run_id = None
    /\ statuses = << >>
    /\ attempt = [p \in Variants |-> 0]
    /\ trace = [p \in Variants |-> << >>]
    /\ elapsed = [p \in Variants |-> 0]
    /\ outcome = [p \in Variants |-> Running]
    /\ \E v \in Variants, input \in Invocations :
        /\ pc = [p \in Variants |-> IF p = v THEN "invoke" ELSE "idle"]
        /\ args = [p \in Variants |-> IF p = v THEN input ELSE NoArgs]
        /\ output_format \in [Variants -> {"file_path", "base64"}]
        /\ \A p \in Variants :
              (p # v \/ input.tool \notin {"camb_translated_tts",
                                           "camb_text_to_sound"})
              => output_format[p] = "file_path"
        /\ IF input.tool = "camb_text_to_sound"
           THEN /\ given \in {g \in StreamInputs : g.tool = input.tool}
                /\ yielded = [p \in Variants |-> << >>]
           ELSE NoPure
    /\ requests = [p \in Variants |-> << >>]
    /\ message_read = [p \in Variants |-> FALSE]
    /\ audio = [p \in Variants |-> NotYet]
    /\ result = [p \in Variants |-> NoResult]
    /\ files = << >>
    /\ NoToolkit
    /\ NoClients
    /\ NoCalls
    /\ sdk = [p \in Variants |-> << >>]
    /\ value = [p \in Variants |-> NoValue]

NextInvoke ==
    \E p \in Variants :
        \/ Validate(p)
        \/ CreateTranscription(p)
        \/ CreateAudioSeparation(p)
        \/ CreateTranslatedTTS(p)
        \/ CreateTextToSound(p)
        \/ FetchTask(p)
        \/ Sleep(p)
        \/ Timeout(p)
        \/ PollEnded(p)
        \/ PrimarySkip(p)
        \/ PrimaryGet(p)
        \/ FallbackNoUrl(p)
        \/ FallbackGet(p)
        \/ FormatOutput(p)
        \/ OpenStream(p)
        \/ AppendChunk(p)
        \/ StreamRaises(p)
        \/ StreamEnds(p)
        \/ TranscriptionResult(p)
        \/ AudioSeparationResult(p)

SpecInvoke == InitInvoke /\ [][NextInvoke]_vars

----------------------------------------------------------------------------
\* CambTranslationTool (translation.py 65-150)

TranslationArgs(text, formality) ==
    [tool |-> "camb_translation", text |-> text, source_language |-> 1,
     target_language |-> 2, formality |-> formality]

\* a Python object as the translation client returns it or carries it as the
\* body of an ApiError: s is the text of a str, the text attribute of an
\* object that has one, and str(x) of any other object
PyObject(t, s) == [t |-> t, s |-> s, chunks |-> << >>]

\* an iterable of chunks that is neither str nor bytes
PyIterable(chunks) == [t |-> "iterable", s |-> "", chunks |-> chunks]

\* camb.core.api_error.ApiError(status_code=..., body=...)
ApiError(status_code, body) ==
    [kind |-> "ApiError", status_code |-> status_code, body |-> body]

\* an exception of another class raised by the client
OtherError == [kind |-> "ConnectError", status_code |-> None,
               body |-> PyObject("None", "None")]

\* `e.body` as a condition: None, "" and {} are falsy
TruthyObject(x) ==
    ~(\/ x.t = "None"
      \/ x.t = "str" /\ x.s = ""
      \/ x.t = "dict" /\ x.s = "{}")

\* lines 137-143: "".join of the chunks that have a text attribute or are str
RECURSIVE JoinChunkTexts(_)
JoinChunkTexts(chunks) ==
    IF chunks = << >> THEN ""
    ELSE (IF Head(chunks).t \in {"has_text", "str"} THEN Head(chunks).s
          ELSE "")
         \o JoinChunkTexts(Tail(chunks))

\* _extract_text (lines 133-150)
_extract_text(returned) ==
    IF returned.t = "iterable" THEN JoinChunkTexts(returned.chunks)
    ELSE returned.s

\* the answer of a client call that returned a value
ReturnedValue(x) == [kind |-> "return", status_code |-> None, body |-> x]

\* what _run gives for an answer of translation_stream (lines 89-97): the text
\* it returns, or the exception it lets through
TranslationOutcome(answer) ==
    IF answer.kind = "return"
    THEN [kind |-> "text", text |-> _extract_text(answer.body),
          exception |-> answer]
    ELSE IF answer.kind = "ApiError"
            /\ answer.status_code = 200 /\ TruthyObject(answer.body)
    THEN [kind |-> "text", text |-> answer.body.s, exception |-> answer]
    ELSE [kind |-> "error", text |-> "", exception |-> answer]

TranslationOutcomeAsync_AnyStatus(answer) ==
    IF answer.kind = "return"
    THEN [kind |-> "text", text |-> _extract_text(answer.body),
          exception |-> answer]
    ELSE IF answer.kind = "ApiError" /\ TruthyObject(answer.body)
    THEN [kind |-> "text", text |-> answer.body.s, exception |-> answer]
    ELSE [kind |-> "error", text |-> "", exception |-> answer]

\* the same for _arun (lines 123-131)
TranslationOutcomeAsync(answer) ==
    IF answer.kind = "return"
    THEN [kind |-> "text", text |-> _extract_text(answer.body),
          exception |-> answer]
    ELSE IF answer.kind = "ApiError"
            /\ answer.status_code = 200 /\ TruthyObject(answer.body)
    THEN [kind |-> "text", text |-> answer.body.s, exception |-> answer]
    ELSE [kind |-> "error", text |-> "", exception |-> answer]

\* what translation_stream may answer
ErrorBodies ==
    { PyObject("None", "None"), PyObject("str", ""), PyObject("str", "Hola"),
      PyObject("dict", "{}"), PyObject("dict", "{'detail': 'Not Found'}") }

TranslationAnswers ==
    { ReturnedValue(x) :
        x \in { PyObject("str", "Hola"), PyObject("has_text", "Hola"),
                PyObject("other", "<Response>"),
                PyIterable(<< >>),
                PyIterable(<<PyObject("str", "Ho"),
                             PyObject("has_text", "la")>>),
                PyIterable(<<PyObject("has_text", "la"),
                             PyObject("other", "7"),
                             PyObject("str", "Ho")>>) } }
    \cup { ApiError(c, b) : c \in {None, 200, 201, 404, 500},
                            b \in ErrorBodies }
    \cup { OtherError }

\* _run (lines 80-97) / _arun (lines 114-131)
Translate(p) ==
    /\ pc[p] = "run"
    /\ args[p].tool = "camb_translation"
    /\ \E answer \in TranslationAnswers :
        LET out == IF p = "async" THEN TranslationOutcomeAsync(answer)
                   ELSE TranslationOutcome(answer)
            kwargs == IF Truthy(args[p].formality)
                      THEN [text |-> args[p].text,
                            source_language |-> args[p].source_language,
                            target_language |-> args[p].target_language,
                            formality |-> args[p].formality]
                      ELSE [text |-> args[p].text,
                            source_language |-> args[p].source_language,
                            target_language |-> args[p].target_language]
        IN
        /\ sdk' = [sdk EXCEPT ![p] = Append(@,
              SdkCallAnswered("translation", "translation_stream", kwargs,
                              answer))]
        /\ IF out.kind = "text"
           THEN /\ pc' = [pc EXCEPT ![p] = "end"]
                /\ result' = [result EXCEPT
                      ![p] = [NoResult EXCEPT !.kind = "text"]]
                /\ value' = [value EXCEPT
                      ![p] = [kind |-> "str", s |-> out.text]]
           ELSE /\ pc' = [pc EXCEPT ![p] = "raised"]
                /\ result' = [result EXCEPT
                      ![p] = Raised(out.exception.kind)]
                /\ value' = [value EXCEPT ![p] = out.exception]
    /\ UNCHANGED <<apart, tool, outcome, pollVars, output_format, requests,
                   message_read, audio, files, args>>

InitTranslate ==
    /\ tool \in [max_poll_attempts : {DefaultMaxPollAttempts},
                 poll_interval : {DefaultPollInterval},
                 api_key : {ApiKey},
                 client_wrapper : {[has_base_url |-> FALSE,
                                    base_url |-> << >>]}]
    /\ task_id = ""
    /\ run_id = None
    /\ statuses = << >>
    /\ attempt = [p \in Variants |-> 0]
    /\ trace = [p \in Variants |-> << >>]
    /\ elapsed = [p \in Variants |-> 0]
    /\ outcome = [p \in Variants |-> Running]
    /\ \E v \in Variants, text \in {"Hello", "Bye"},
          formality \in {None, 0, 1, 2} :
        /\ pc = [p \in Variants |-> IF p = v THEN "invoke" ELSE "idle"]
        /\ args = [p \in Variants |->
                     IF p = v THEN TranslationArgs(text, formality)
                     ELSE NoArgs]
    /\ output_format = [p \in Variants |-> "file_path"]
    /\ requests = [p \in Variants |-> << >>]
    /\ message_read = [p \in Variants |-> FALSE]
    /\ audio = [p \in Variants |-> NotYet]
    /\ result = [p \in Variants |-> NoResult]
    /\ files = << >>
    /\ NoToolkit
    /\ NoPure
    /\ NoClients
    /\ NoCalls
    /\ sdk = [p \in Variants |-> << >>]
    /\ value = [p \in Variants |-> NoValue]

NextTranslate ==
    \E p \in Variants : Validate(p) \/ Translate(p)

SpecTranslate == InitTranslate /\ [][NextTranslate]_vars

----------------------------------------------------------------------------
\* CambVoiceListTool (voice_list.py 47-108)

VoiceListArgs == [tool |-> "camb_voice_list"]

\* the values a field of a voice entry may have; NoKey is a key the mapping
\* lacks or an attribute the object lacks
NoKey == [t |-> "missing", s |-> "", n |-> 0]
VNone == [t |-> "None", s |-> "", n |-> 0]
VStr(s) == [t |-> "str", s |-> s, n |-> 0]
VInt(n) == [t |-> "int", s |-> "", n |-> n]

\* an entry of the list list_voices returns: a dict or an object
Voice(kind, id, voice_name, name, gender, age, language) ==
    [kind |-> kind, id |-> id, voice_name |-> voice_name, name |-> name,
     gender |-> gender, age |-> age, language |-> language]

\* voice.get(key, default)
dict_get(voice, key, default) ==
    IF voice[key].t = "missing" THEN default ELSE voice[key]

\* getattr(voice, key, default)
getattr(voice, key, default) ==
    IF voice[key].t = "missing" THEN default ELSE voice[key]

\* gender_map (lines 102-107)
gender_map ==
    [g \in {0, 1, 2, 9} |->
        CASE g = 0 -> "not_specified"
          [] g = 1 -> "male"
          [] g = 2 -> "female"
          [] g = 9 -> "not_applicable"]

_gender_to_string_DefaultsToZero(gender) ==
    IF gender.t = "int" /\ gender.n \in DOMAIN gender_map
    THEN gender_map[gender.n]
    ELSE gender_map[0]

\* _gender_to_string (lines 99-108): gender_map.get(gender, "unknown")
_gender_to_string(gender) ==
    IF gender.t = "int" /\ gender.n \in DOMAIN gender_map
    THEN gender_map[gender.n]
    ELSE "unknown"

\* lines 76-85: the record of a dict
FormatVoiceDict(voice) ==
    [id |-> dict_get(voice, "id", VNone),
     name |-> dict_get(voice, "voice_name",
                       dict_get(voice, "name", VStr("Unknown"))),
     gender |-> VStr(_gender_to_string(dict_get(voice, "gender", VInt(0)))),
     age |-> dict_get(voice, "age", VNone),
     language |-> dict_get(voice, "language", VNone)]

FormatVoiceObject_NameFirst(voice) ==
    [id |-> getattr(voice, "id", VNone),
     name |-> getattr(voice, "name",
                      getattr(voice, "voice_name", VStr("Unknown"))),
     gender |-> VStr(_gender_to_string(getattr(voice, "gender", VInt(0)))),
     age |-> getattr(voice, "age", VNone),
     language |-> getattr(voice, "language", VNone)]

\* lines 86-95: the record of an object
FormatVoiceObject(voice) ==
    [id |-> getattr(voice, "id", VNone),
     name |-> getattr(voice, "voice_name",
                      getattr(voice, "name", VStr("Unknown"))),
     gender |-> VStr(_gender_to_string(getattr(voice, "gender", VInt(0)))),
     age |-> getattr(voice, "age", VNone),
     language |-> getattr(voice, "language", VNone)]

\* the JSON text json.dumps returns, kept as the list it encodes
JsonVoices(voice_list) == [kind |-> "json", voices |-> voice_list]

\* _format_voices (lines 71-97)
_format_voices(voices) ==
    JsonVoices([k \in 1 .. Len(voices) |->
                  IF voices[k].kind = "dict"
                  THEN FormatVoiceDict(voices[k])
                  ELSE FormatVoiceObject(voices[k])])

\* the gender codes an entry may carry: those of gender_map and GenderSpan
\* more on either side
GenderSpan == 1
GenderCodes == (0 - GenderSpan) .. (9 + GenderSpan)

\* what list_voices may return
VoiceKinds == {"dict", "object"}

VoiceEntries ==
    { Voice(kind, rest[1], voice_name, name, VInt(2), rest[2], rest[3]) :
        kind \in VoiceKinds,
        voice_name \in {NoKey, VNone, VStr("Ann")},
        name \in {NoKey, VStr("Bob")},
        rest \in { <<NoKey, NoKey, NoKey>>, <<VNone, VInt(30), NoKey>>,
                   <<VInt(7), VNone, VInt(1)>> } }

GenderEntries ==
    { Voice(kind, VInt(7), VStr("Ann"), NoKey, gender, VInt(30), VInt(1)) :
        kind \in VoiceKinds,
        gender \in {VInt(g) : g \in GenderCodes}
                   \cup {NoKey, VNone, VStr("female")} }

MaxVoices == 2

ListsOf(entries) ==
    UNION { [1 .. n -> entries] : n \in 0 .. MaxVoices }

\* _run (lines 47-57) / _arun (lines 59-69)
ListVoicesFrom(p, entries) ==
    /\ pc[p] = "run"
    /\ args[p].tool = "camb_voice_list"
    /\ \E voices \in ListsOf(entries) :
        /\ sdk' = [sdk EXCEPT ![p] = Append(@,
              SdkCallAnswered("voice_cloning", "list_voices", EmptyKwargs,
                              voices))]
        /\ value' = [value EXCEPT ![p] = _format_voices(voices)]
    /\ pc' = [pc EXCEPT ![p] = "end"]
    /\ result' = [result EXCEPT ![p] = [NoResult EXCEPT !.kind = "json"]]
    /\ UNCHANGED <<apart, tool, outcome, pollVars, output_format, requests,
                   message_read, audio, files, args>>

ListVoices(p) == ListVoicesFrom(p, VoiceEntries)

ListGenders(p) == ListVoicesFrom(p, GenderEntries)

InitVoices ==
    /\ tool \in [max_poll_attempts : {DefaultMaxPollAttempts},
                 poll_interval : {DefaultPollInterval},
                 api_key : {ApiKey},
                 client_wrapper : {[has_base_url |-> FALSE,
                                    base_url |-> << >>]}]
    /\ task_id = ""
    /\ run_id = None
    /\ statuses = << >>
    /\ attempt = [p \in Variants |-> 0]
    /\ trace = [p \in Variants |-> << >>]
    /\ elapsed = [p \in Variants |-> 0]
    /\ outcome = [p \in Variants |-> Running]
    /\ \E v \in Variants :
        /\ pc = [p \in Variants |-> IF p = v THEN "invoke" ELSE "idle"]
        /\ args = [p \in Variants |->
                     IF p = v THEN VoiceListArgs ELSE NoArgs]
    /\ output_format = [p \in Variants |-> "file_path"]
    /\ requests = [p \in Variants |-> << >>]
    /\ message_read = [p \in Variants |-> FALSE]
    /\ audio = [p \in Variants |-> NotYet]
    /\ result = [p \in Variants |-> NoResult]
    /\ files = << >>
    /\ NoToolkit
    /\ NoPure
    /\ NoClients
    /\ NoCalls
    /\ sdk = [p \in Variants |-> << >>]
    /\ value = [p \in Variants |-> NoValue]

NextVoices ==
    \E p \in Variants : Validate(p) \/ ListVoices(p)

SpecVoices == InitVoices /\ [][NextVoices]_vars

NextGenders ==
    \E p \in Variants : Validate(p) \/ ListGenders(p)

SpecGenders == InitVoices /\ [][NextGenders]_vars

----------------------------------------------------------------------------
\* CambToolkit (camb_toolkit.py 23-148)

DefaultTimeout == 60

\* the fields of a CambToolkit (lines 52-95)
CambToolkit(api_key, base_url, timeout, include) ==
    [api_key |-> api_key, base_url |-> base_url, timeout |-> timeout,
     include_tts |-> include[1],
     include_translated_tts |-> include[2],
     include_translation |-> include[3],
     include_transcription |-> include[4],
     include_voice_list |-> include[5],
     include_voice_clone |-> include[6],
     include_text_to_sound |-> include[7],
     include_audio_separation |-> include[8]]

\* the ValueError of _get_api_key and of validate_api_key
KeyRequired == [t |-> "ValueError", s |-> "CAMB AI API key is required."]

_get_api_key_FieldOnly(api_key, env) ==
    IF ~TruthyStr(api_key) THEN KeyRequired ELSE api_key

\* _get_api_key (lines 99-107): self.api_key or os.environ.get("CAMB_API_KEY")
_get_api_key(api_key, env) ==
    LET key == IF TruthyStr(api_key) THEN api_key ELSE env
    IN  IF ~TruthyStr(key) THEN KeyRequired ELSE key

\* CambBaseTool.validate_api_key (base.py 49-59): the api_key of a tool built
\* with the given api_key, or KeyRequired
validate_api_key(api_key, env) ==
    LET key == IF ~TruthyStr(api_key) THEN env ELSE api_key
    IN  IF ~TruthyStr(key) THEN KeyRequired ELSE key

\* Tool(**common_kwargs): the tool's name and the fields it is built with
NewTool(name, common_kwargs, env) ==
    [name |-> name,
     api_key |-> validate_api_key(common_kwargs.api_key, env),
     base_url |-> common_kwargs.base_url,
     timeout |-> common_kwargs.timeout]

\* lines 124-146: the tools in the order get_tools appends them, each with
\* the flag that includes it
ToolClasses ==
    << [flag |-> "include_tts", name |-> "camb_tts"],
       [flag |-> "include_translated_tts", name |-> "camb_translated_tts"],
       [flag |-> "include_translation", name |-> "camb_translation"],
       [flag |-> "include_transcription", name |-> "camb_transcription"],
       [flag |-> "include_voice_list", name |-> "camb_voice_list"],
       [flag |-> "include_voice_clone", name |-> "camb_voice_clone"],
       [flag |-> "include_text_to_sound", name |-> "camb_text_to_sound"],
       [flag |-> "include_audio_separation",
        name |-> "camb_audio_separation"] >>

\* get_tools (lines 109-148): the list it returns or the error it raises
get_tools(kit, env) ==
    LET api_key == _get_api_key(kit.api_key, env)
        common_kwargs == [api_key |-> api_key, base_url |-> kit.base_url,
                          timeout |-> kit.timeout]
        included == SelectSeq(ToolClasses, LAMBDA class : kit[class.flag])
        tools == [k \in 1 .. Len(included) |->
                    NewTool(included[k].name, common_kwargs, env)]
    IN  IF api_key = KeyRequired
        THEN [kind |-> "ValueError", tools |-> << >>]
        ELSE IF \E k \in 1 .. Len(tools) : tools[k].api_key = KeyRequired
        THEN [kind |-> "ValidationError", tools |-> << >>]
        ELSE [kind |-> "list", tools |-> tools]

\* toolkit.get_tools()
GetTools ==
    /\ got = NoTools
    /\ toolkit # [api_key |-> PyNone]
    /\ got' = get_tools(toolkit, environ)
    /\ UNCHANGED <<toolkit, environ, concurVars, pureVars, clientVars,
                   tool, pc, outcome, pollVars,
                   resolveVars, invokeVars>>

\* the toolkits and the environments get_tools is called in
ApiKeys == {PyNone, PyStr(""), PyStr("kit-key")}
EnvKeys == {PyNone, PyStr(""), PyStr("env-key")}
BaseUrls == {PyNone, PyStr("https://eu.camb.test")}
Timeouts == {DefaultTimeout, DefaultTimeout \div 2}

InitToolkit ==
    /\ tool \in [max_poll_attempts : {DefaultMaxPollAttempts},
                 poll_interval : {DefaultPollInterval},
                 api_key : {ApiKey},
                 client_wrapper : {[has_base_url |-> FALSE,
                                    base_url |-> << >>]}]
    /\ task_id = ""
    /\ run_id = None
    /\ statuses = << >>
    /\ attempt = [p \in Variants |-> 0]
    /\ trace = [p \in Variants |-> << >>]
    /\ elapsed = [p \in Variants |-> 0]
    /\ outcome = [p \in Variants |-> Running]
    /\ pc = [p \in Variants |-> "idle"]
    /\ output_format = [p \in Variants |-> "file_path"]
    /\ requests = [p \in Variants |-> << >>]
    /\ message_read = [p \in Variants |-> FALSE]
    /\ audio = [p \in Variants |-> NotYet]
    /\ result = [p \in Variants |-> NoResult]
    /\ files = << >>
    /\ NotInvoked
    /\ toolkit \in { CambToolkit(api_key, base_url, timeout, include) :
                        api_key \in ApiKeys, base_url \in BaseUrls,
                        timeout \in Timeouts,
                        include \in [1 .. Len(ToolClasses) -> BOOLEAN] }
    /\ environ \in EnvKeys
    /\ got = NoTools
    /\ NoCalls
    /\ NoPure
    /\ NoClients

NextToolkit == GetTools

SpecToolkit == InitToolkit /\ [][NextToolkit]_vars

----------------------------------------------------------------------------
\* Several poll calls under way at once (base.py 83-161;
\* examples/08_async_batch_processing.py 39-70)
\*
\* A call of _poll_task_status is a coroutine: the coroutines of one event
\* loop share the loop's thread and one of them runs while no other does.  A
\* call of _poll_task_status_sync runs on the thread of its caller.  The
\* local variables attempt and status belong to the call; max_poll_attempts
\* and poll_interval are fields of the tool instance, read by every call on
\* that instance and written by none.

\* largest max_poll_attempts of a tool instance that is polled concurrently
MaxConcurrentAttempts == 2

Calls == 1 .. 3
Instances == 1 .. 2

\* the event loop's thread, and the thread of the caller of the sync call c
LoopThread == 0
ThreadOf(variant, c) == IF variant = "async" THEN LoopThread ELSE c

\* each call polls a task of its own
TaskIds == <<"task-1", "task-2", "task-3">>

\* the frame of a poll call that has just been entered
NewCall(variant, instance, c) ==
    [variant |-> variant, instance |-> instance,
     thread |-> ThreadOf(variant, c),
     task_id |-> TaskIds[c], attempt |-> 0, pc |-> "loop",
     trace |-> << >>, outcome |-> Running]

\* whether the thread of the caller stays busy for the length of the delay.
\* base.py 115: `await asyncio.sleep(...)` suspends the coroutine and returns
\* the thread to the event loop
AsyncioSleepKeepsThread_Blocking == TRUE

AsyncioSleepKeepsThread == FALSE

\* base.py 156: time.sleep(...) blocks the calling thread
TimeSleepKeepsThread == TRUE

KeepsThread(variant) ==
    IF variant = "async" THEN AsyncioSleepKeepsThread
    ELSE TimeSleepKeepsThread

\* call c can run: no other call keeps its thread busy
CanRun(c) == held[calls[c].thread] \in {0, c}

CallBody(variant, status) ==
    IF variant = "async" THEN PollBody(status) ELSE PollBodySync(status)

CallExhausted(variant, done, max_poll_attempts) ==
    IF variant = "async" THEN PollExhausted(done, max_poll_attempts)
    ELSE PollExhaustedSync(done, max_poll_attempts)

CallTimeout(variant, tid, max_poll_attempts, poll_interval) ==
    IF variant = "async"
    THEN PollTimeout(tid, max_poll_attempts, poll_interval)
    ELSE PollTimeoutSync(tid, max_poll_attempts, poll_interval)

\* what the status endpoint may answer to a call
CallPayloads ==
    { Payload(TRUE, "pending", FALSE, ""),
      Payload(TRUE, "completed", FALSE, ""),
      Payload(TRUE, "failed", TRUE, "boom") }

\* status = [await] get_status_fn(task_id, run_id=run_id) and the if/elif
CallFetch(c) ==
    /\ calls[c].pc = "loop"
    /\ CanRun(c)
    /\ ~CallExhausted(calls[c].variant, calls[c].attempt,
                      instances[calls[c].instance].max_poll_attempts)
    /\ \E status \in CallPayloads :
        LET ended == CallBody(calls[c].variant, status) IN
        calls' = [calls EXCEPT
            ![c].trace = Append(@, FetchEvent(
                            PollCall(calls[c].task_id, None), status)),
            ![c].outcome = ended,
            ![c].pc = IF ended = Running THEN "sleep" ELSE "done"]
    /\ UNCHANGED <<instances, held, toolkitVars, pureVars, clientVars,
                   tool, pc, outcome, pollVars,
                   resolveVars, invokeVars>>

\* [await asyncio | time].sleep(self.poll_interval) begins
CallSleep(c) ==
    /\ calls[c].pc = "sleep"
    /\ CanRun(c)
    /\ calls' = [calls EXCEPT ![c].pc = "sleeping"]
    /\ held' = IF KeepsThread(calls[c].variant)
               THEN [held EXCEPT ![calls[c].thread] = c]
               ELSE held
    /\ UNCHANGED <<instances, toolkitVars, pureVars, clientVars,
                   tool, pc, outcome, pollVars,
                   resolveVars, invokeVars>>

\* the delay is over: the call goes on with the next iteration
CallWake(c) ==
    /\ calls[c].pc = "sleeping"
    /\ CanRun(c)
    /\ calls' = [calls EXCEPT
          ![c].trace = Append(@,
              SleepEvent(SleepFor(calls[c].variant,
                           instances[calls[c].instance].poll_interval))),
          ![c].attempt = @ + 1,
          ![c].pc = "loop"]
    /\ held' = [held EXCEPT ![calls[c].thread] = 0]
    /\ UNCHANGED <<instances, toolkitVars, pureVars, clientVars,
                   tool, pc, outcome, pollVars,
                   resolveVars, invokeVars>>

\* range(self.max_poll_attempts) is exhausted: raise TimeoutError(...)
CallTimesOut(c) ==
    /\ calls[c].pc = "loop"
    /\ CanRun(c)
    /\ CallExhausted(calls[c].variant, calls[c].attempt,
                     instances[calls[c].instance].max_poll_attempts)
    /\ calls' = [calls EXCEPT
          ![c].outcome = CallTimeout(calls[c].variant, calls[c].task_id,
                            instances[calls[c].instance].max_poll_attempts,
                            instances[calls[c].instance].poll_interval),
          ![c].pc = "done"]
    /\ UNCHANGED <<instances, held, toolkitVars, pureVars, clientVars,
                   tool, pc, outcome, pollVars,
                   resolveVars, invokeVars>>

\* the next step of call c, whatever it is
CallStep(c) == CallFetch(c) \/ CallSleep(c) \/ CallWake(c) \/ CallTimesOut(c)

\* a poll call run alone from its entry, answered by the statuses of the
\* script in turn: the fetches and the sleeps it makes and how it ends
\* (Running when it needs an answer the script does not have)
RECURSIVE SoloRun(_, _, _, _, _)
SoloRun(variant, config, tid, script, done) ==
    IF CallExhausted(variant, done, config.max_poll_attempts)
    THEN [fetches |-> done, sleeps |-> done,
          outcome |-> CallTimeout(variant, tid, config.max_poll_attempts,
                                  config.poll_interval)]
    ELSE IF done >= Len(script)
    THEN [fetches |-> done, sleeps |-> done, outcome |-> Running]
    ELSE IF CallBody(variant, script[done + 1]) # Running
    THEN [fetches |-> done + 1, sleeps |-> done,
          outcome |-> CallBody(variant, script[done + 1])]
    ELSE SoloRun(variant, config, tid, script, done + 1)

\* which calls are coroutines and which tool instance each polls on
Gatherings ==
    { <<[variant |-> "async", instance |-> 1],
        [variant |-> "async", instance |-> 1],
        [variant |-> "sync", instance |-> 2]>>,
      <<[variant |-> "async", instance |-> 1],
        [variant |-> "async", instance |-> 2],
        [variant |-> "async", instance |-> 2]>>,
      <<[variant |-> "sync", instance |-> 1],
        [variant |-> "sync", instance |-> 1],
        [variant |-> "async", instance |-> 1]>>,
      <<[variant |-> "sync", instance |-> 1],
        [variant |-> "sync", instance |-> 2],
        [variant |-> "sync", instance |-> 2]>> }

InitCalls ==
    /\ tool \in [max_poll_attempts : {DefaultMaxPollAttempts},
                 poll_interval : {DefaultPollInterval},
                 api_key : {ApiKey},
                 client_wrapper : {[has_base_url |-> FALSE,
                                    base_url |-> << >>]}]
    /\ task_id = ""
    /\ run_id = None
    /\ statuses = << >>
    /\ attempt = [p \in Variants |-> 0]
    /\ trace = [p \in Variants |-> << >>]
    /\ elapsed = [p \in Variants |-> 0]
    /\ outcome = [p \in Variants |-> Running]
    /\ pc = [p \in Variants |-> "idle"]
    /\ output_format = [p \in Variants |-> "file_path"]
    /\ requests = [p \in Variants |-> << >>]
    /\ message_read = [p \in Variants |-> FALSE]
    /\ audio = [p \in Variants |-> NotYet]
    /\ result = [p \in Variants |-> NoResult]
    /\ files = << >>
    /\ NotInvoked
    /\ NoToolkit
    /\ NoPure
    /\ NoClients
    /\ instances \in [Instances ->
                        [max_poll_attempts : 1 .. MaxConcurrentAttempts,
                         poll_interval : {1, DefaultPollInterval}]]
    /\ \E gathering \in Gatherings :
        calls = [c \in Calls |->
                   NewCall(gathering[c].variant, gathering[c].instance, c)]
    /\ held = [thread \in {LoopThread} \cup Calls |-> 0]

NextCalls == \E c \in Calls : CallStep(c)

SpecCalls == InitCalls /\ [][NextCalls]_vars

----------------------------------------------------------------------------
\* _detect_audio_format applied to bytes and a content-type string of the
\* caller's choosing

\* no tool is invoked
Idle ==
    /\ tool = [max_poll_attempts |-> DefaultMaxPollAttempts,
               poll_interval |-> DefaultPollInterval,
               api_key |-> ApiKey,
               client_wrapper |-> [has_base_url |-> FALSE, base_url |-> << >>]]
    /\ task_id = ""
    /\ run_id = None
    /\ statuses = << >>
    /\ attempt = [p \in Variants |-> 0]
    /\ trace = [p \in Variants |-> << >>]
    /\ elapsed = [p \in Variants |-> 0]
    /\ outcome = [p \in Variants |-> Running]
    /\ pc = [p \in Variants |-> "idle"]
    /\ output_format = [p \in Variants |-> "file_path"]
    /\ requests = [p \in Variants |-> << >>]
    /\ message_read = [p \in Variants |-> FALSE]
    /\ audio = [p \in Variants |-> NotYet]
    /\ result = [p \in Variants |-> NoResult]
    /\ files = << >>
    /\ NotInvoked

DetectBodies ==
    Bodies \cup
    { <<82, 73, 70, 70>>, <<73, 68, 51>>, <<255, 243, 68>>, <<255, 242>>,
      <<114, 105, 102, 102>>, <<70, 76, 65, 67>>, <<0, 82, 73, 70, 70>>,
      <<79, 103, 103>>, <<255>>, <<251, 255>> }

DetectTypes ==
    ContentTypes \cup
    { << >>,
      <<"a", "u", "d", "i", "o", "/", "o", "g", "g", ";", "c", "o", "d", "e", "c", "s", "=", "f", "l", "a", "c">>,
      <<"a", "u", "d", "i", "o", "/", "m", "p", "3", "-", "w", "a", "v", "e">>,
      <<"a", "u", "d", "i", "o", "/", "o", "g", "g", "+", "m", "p", "e", "g">>,
      <<"t", "e", "x", "t", "/", "p", "l", "a", "i", "n">>,
      <<"A", "U", "D", "I", "O", "/", "O", "G", "G">>,
      <<"v", "i", "d", "e", "o", "/", "M", "P", "E", "G">> }

InitDetect ==
    /\ Idle
    /\ NoToolkit
    /\ NoCalls
    /\ NoClients
    /\ given \in [audio_data : DetectBodies, content_type : DetectTypes]
    /\ yielded = << >>

\* audio_format = self._detect_audio_format(audio_data, content_type)
Detect ==
    /\ yielded = << >>
    /\ "content_type" \in DOMAIN given
    /\ yielded' = <<_detect_audio_format(given.audio_data, given.content_type)>>
    /\ UNCHANGED <<tool, pc, outcome, pollVars, resolveVars, invokeVars,
                   toolkitVars, concurVars, clientVars, given>>

NextDetect == Detect

SpecDetect == InitDetect /\ [][NextDetect]_vars

----------------------------------------------------------------------------
\* _add_wav_header applied to PCM bytes of the caller's choosing

MaxPcmLen == 4
SampleBytes == {0, 82, 255}

\* n bytes that differ from their neighbours
Ramp(n) == [i \in 1 .. n |-> (i * 7) % 256]

\* lengths around the carries of the two size fields
LongLengths == {219, 220, 255, 256, 300, 65500}

PcmInputs ==
    UNION { [1 .. n -> SampleBytes] : n \in 0 .. MaxPcmLen }
    \cup { Ramp(n) : n \in LongLengths }

InitWav ==
    /\ Idle
    /\ NoToolkit
    /\ NoCalls
    /\ NoClients
    /\ given \in [pcm_data : PcmInputs]
    /\ yielded = << >>

\* line 298: audio_data = self._add_wav_header(audio_data)
AddWavHeader ==
    /\ yielded = << >>
    /\ "pcm_data" \in DOMAIN given
    /\ yielded' = <<_add_wav_header(given.pcm_data)>>
    /\ UNCHANGED <<tool, pc, outcome, pollVars, resolveVars, invokeVars,
                   toolkitVars, concurVars, clientVars, given>>

NextWav == AddWavHeader

SpecWav == InitWav /\ [][NextWav]_vars

----------------------------------------------------------------------------
\* A streaming tool drained by both variants, each given the same stream

InitStream ==
    /\ tool = [max_poll_attempts |-> DefaultMaxPollAttempts,
               poll_interval |-> DefaultPollInterval,
               api_key |-> ApiKey,
               client_wrapper |-> [has_base_url |-> FALSE, base_url |-> << >>]]
    /\ task_id = "task-1"
    /\ run_id = None
    /\ statuses = << >>
    /\ attempt = [p \in Variants |-> 0]
    /\ trace = [p \in Variants |-> << >>]
    /\ elapsed = [p \in Variants |-> 0]
    /\ outcome = [p \in Variants |->
          Returned([Payload(TRUE, "SUCCESS", FALSE, "") EXCEPT !.run_id = 42])]
    /\ pc = [p \in Variants |-> "stream"]
    /\ given \in StreamInputs
    /\ output_format \in [Variants -> OutputFormats(given.tool)]
    /\ yielded = [p \in Variants |-> << >>]
    /\ requests = [p \in Variants |-> << >>]
    /\ message_read = [p \in Variants |-> FALSE]
    /\ audio = [p \in Variants |-> NotYet]
    /\ result = [p \in Variants |-> NoResult]
    /\ files = << >>
    /\ NotInvoked
    /\ NoToolkit
    /\ NoCalls
    /\ NoClients

NextStream ==
    \E p \in Variants :
        \/ OpenStream(p)
        \/ AppendChunk(p)
        \/ StreamRaises(p)
        \/ StreamEnds(p)

SpecStream == InitStream /\ [][NextStream]_vars

----------------------------------------------------------------------------
\* CambBaseTool.sync_client and async_client (base.py 43-45, 61-81), read by
\* several invocations of one tool instance: sync invocations run in
\* threads, which may be switched between any two steps of the property;
\* async invocations run as coroutines of one event loop, which are switched
\* only at an await, and the property has none

MaxThreads == 2
MaxCoroutines == 2

SyncInvocations == 1 .. MaxThreads
AsyncInvocations == (MaxThreads + 1) .. (MaxThreads + MaxCoroutines)

\* an invocation before it reads the property
NotStarted == [pc |-> "start", made |-> NoClient, got |-> NoClient]

\* CambAI(api_key=..., base_url=..., timeout=...) and AsyncCambAI(...)
NewClient(class, by) ==
    [class |-> class, api_key |-> tool.api_key,
     base_url |-> tool.client_wrapper.base_url, timeout |-> DefaultTimeout,
     by |-> by]

\* line 64: if self._sync_client is None
TestSyncClient(t) ==
    /\ t \in SyncInvocations
    /\ threads[t].pc = "start"
    /\ threads' = [threads EXCEPT
          ![t].pc = IF sync_client = NoClient THEN "construct" ELSE "return"]
    /\ UNCHANGED <<sync_client, async_client, constructed>>
    /\ UNCHANGED <<tool, pc, outcome, pollVars, resolveVars, invokeVars,
                   toolkitVars, concurVars, pureVars>>

\* lines 65-69, the right-hand side: CambAI(...)
ConstructSyncClient(t) ==
    /\ t \in SyncInvocations
    /\ threads[t].pc = "construct"
    /\ constructed' = Append(constructed, NewClient("CambAI", t))
    /\ threads' = [threads EXCEPT ![t].pc = "assign",
                                  ![t].made = Len(constructed) + 1]
    /\ UNCHANGED <<sync_client, async_client>>
    /\ UNCHANGED <<tool, pc, outcome, pollVars, resolveVars, invokeVars,
                   toolkitVars, concurVars, pureVars>>

\* line 65, the assignment: self._sync_client = <the new client>
AssignSyncClient(t) ==
    /\ t \in SyncInvocations
    /\ threads[t].pc = "assign"
    /\ sync_client' = threads[t].made
    /\ threads' = [threads EXCEPT ![t].pc = "return"]
    /\ UNCHANGED <<async_client, constructed>>
    /\ UNCHANGED <<tool, pc, outcome, pollVars, resolveVars, invokeVars,
                   toolkitVars, concurVars, pureVars>>

\* line 70: return self._sync_client
ReturnSyncClient(t) ==
    /\ t \in SyncInvocations
    /\ threads[t].pc = "return"
    /\ threads' = [threads EXCEPT ![t].pc = "done", ![t].got = sync_client]
    /\ UNCHANGED <<sync_client, async_client, constructed>>
    /\ UNCHANGED <<tool, pc, outcome, pollVars, resolveVars, invokeVars,
                   toolkitVars, concurVars, pureVars>>

\* lines 73-81 in one step of the event loop
GetAsyncClient(c) ==
    /\ c \in AsyncInvocations
    /\ threads[c].pc = "start"
    /\ IF async_client = NoClient
       THEN /\ constructed' = Append(constructed, NewClient("AsyncCambAI", c))
            /\ async_client' = Len(constructed) + 1
            /\ threads' = [threads EXCEPT ![c].pc = "done",
                                          ![c].made = Len(constructed) + 1,
                                          ![c].got = Len(constructed) + 1]
       ELSE /\ threads' = [threads EXCEPT ![c].pc = "done",
                                          ![c].got = async_client]
            /\ UNCHANGED <<async_client, constructed>>
    /\ UNCHANGED sync_client
    /\ UNCHANGED <<tool, pc, outcome, pollVars, resolveVars, invokeVars,
                   toolkitVars, concurVars, pureVars>>

InitClients ==
    /\ Idle
    /\ NoToolkit
    /\ NoCalls
    /\ NoPure
    /\ sync_client = NoClient
    /\ async_client = NoClient
    /\ constructed = << >>
    /\ threads = [i \in SyncInvocations \cup AsyncInvocations |-> NotStarted]

NextClients ==
    \E i \in SyncInvocations \cup AsyncInvocations :
        \/ TestSyncClient(i)
        \/ ConstructSyncClient(i)
        \/ AssignSyncClient(i)
        \/ ReturnSyncClient(i)
        \/ GetAsyncClient(i)

SpecClients == InitClients /\ [][NextClients]_vars

----------------------------------------------------------------------------
\* What the claims speak of, read off a poller's trace

IsFetch(e) == e.op = "fetch"
IsSleep(e) == e.op = "sleep"

Fetches(p) == SelectSeq(trace[p], IsFetch)
Sleeps(p) == SelectSeq(trace[p], IsSleep)

\* a payload whose status is "completed" or "SUCCESS"
SaysSuccess(status) ==
    status.has_status /\ status.status \in {"completed", "SUCCESS"}

\* a payload whose status is "failed", "FAILED" or "error"
SaysFailure(status) ==
    status.has_status /\ status.status \in {"failed", "FAILED", "error"}

\* a payload whose status is a case variant of a success spelling without
\* being one of the two spellings itself
SaysSuccessInOtherCase(status) ==
    status.has_status /\ status.status \in {"COMPLETED", "Completed", "success"}

AtLeast0(n) == IF n < 0 THEN 0 ELSE n

\* C1: in both variants, a fetch that returns a payload with status
\* "completed" or "SUCCESS" is the last thing the poll does: the poll has
\* returned that very payload and no fetch or sleep follows the fetch.
C1_SuccessReturnsAtOnce ==
    \A p \in Variants : \A k \in 1 .. Len(trace[p]) :
        (IsFetch(trace[p][k]) /\ SaysSuccess(trace[p][k].status))
        => /\ k = Len(trace[p])
           /\ pc[p] = "done"
           /\ outcome[p].kind = "return"
           /\ outcome[p].status = trace[p][k].status

\* both variants returned on the second fetch with an attempt still unused
C1_Witness ==
    \A p \in Variants :
        /\ outcome[p].kind = "return"
        /\ Len(Fetches(p)) = 2
        /\ Len(Fetches(p)) < tool.max_poll_attempts

\* C2: a fetch that returns a payload with status "failed", "FAILED" or
\* "error" ends the poll at once with RuntimeError: it is the last event, the
\* fetches made are exactly those up to it, and the message is "Task failed: "
\* followed by the payload's error field, or by "Unknown error" when it has
\* none.
C2_FailureRaisesAtOnce ==
    \A p \in Variants : \A k \in 1 .. Len(trace[p]) :
        (IsFetch(trace[p][k]) /\ SaysFailure(trace[p][k].status))
        => /\ k = Len(trace[p])
           /\ pc[p] = "done"
           /\ Len(Fetches(p)) = attempt[p] + 1
           /\ outcome[p].kind = "RuntimeError"
           /\ outcome[p].error_msg =
                <<"Task failed: ",
                  IF trace[p][k].status.has_error
                  THEN trace[p][k].status.error ELSE "Unknown error">>

\* both variants failed on the second fetch, on a payload without error field
C2_Witness ==
    \A p \in Variants :
        /\ outcome[p].kind = "RuntimeError"
        /\ outcome[p].error_msg = <<"Task failed: ", "Unknown error">>
        /\ Len(Fetches(p)) = 2
        /\ Len(Fetches(p)) < tool.max_poll_attempts

\* a poll that has ended without ever fetching a terminal status
EndedWithoutTerminal(p) ==
    /\ pc[p] = "done"
    /\ \A k \in 1 .. Len(trace[p]) :
          IsFetch(trace[p][k]) =>
              ~SaysSuccess(trace[p][k].status) /\ ~SaysFailure(trace[p][k].status)

\* C3 as stated: a poll that never fetches a terminal status fails after
\* exactly max_poll_attempts fetches, having slept max_poll_attempts *
\* poll_interval seconds in sleeps of poll_interval each.
C3_AsStated ==
    \A p \in Variants :
        EndedWithoutTerminal(p)
        => /\ outcome[p].kind = "TimeoutError"
           /\ Len(Fetches(p)) = tool.max_poll_attempts
           /\ elapsed[p] = tool.max_poll_attempts * tool.poll_interval
           /\ \A k \in 1 .. Len(Sleeps(p)) :
                 Sleeps(p)[k].seconds = tool.poll_interval

\* C3 amended: with poll_interval >= 0, a poll that never fetches a terminal
\* status fails with TimeoutError after exactly max(0, max_poll_attempts)
\* fetches, having slept max(0, max_poll_attempts) * poll_interval seconds:
\* every fetch, the last one too, is followed by one sleep of poll_interval.
C3_TimeoutAfterMaxFetches ==
    \A p \in Variants :
        (tool.poll_interval >= 0 /\ EndedWithoutTerminal(p))
        => /\ outcome[p].kind = "TimeoutError"
           /\ Len(Fetches(p)) = AtLeast0(tool.max_poll_attempts)
           /\ elapsed[p] = AtLeast0(tool.max_poll_attempts) * tool.poll_interval
           /\ Len(trace[p]) = 2 * AtLeast0(tool.max_poll_attempts)
           /\ \A k \in 1 .. Len(trace[p]) :
                 IF k % 2 = 1 THEN IsFetch(trace[p][k])
                 ELSE /\ IsSleep(trace[p][k])
                      /\ trace[p][k].seconds = tool.poll_interval

\* both variants timed out after MaxAttempts fetches and sleeps of 2 seconds
C3_Witness ==
    \A p \in Variants :
        /\ outcome[p].kind = "TimeoutError"
        /\ tool.poll_interval = 2
        /\ Len(Fetches(p)) = MaxAttempts
        /\ elapsed[p] = 2 * MaxAttempts

\* C4: timeout and task failure never stand in for each other.  A poll whose
\* loop runs out raises TimeoutError, which carries max_poll_attempts *
\* poll_interval (120 for the defaults) and is raised only when no fetch saw a
\* failed status; a poll that fetched a failed status, on the last permitted
\* attempt too, has raised RuntimeError, and RuntimeError is raised only on
\* a failed status.
C4_TimeoutAndFailureDistinct ==
    /\ PollTimeout("t", DefaultMaxPollAttempts, DefaultPollInterval).budget = 120
    /\ PollTimeoutSync("t", DefaultMaxPollAttempts, DefaultPollInterval).budget
          = 120
    /\ \A p \in Variants :
        /\ (pc[p] = "done" /\ attempt[p] >= tool.max_poll_attempts)
           => outcome[p].kind = "TimeoutError"
        /\ outcome[p].kind = "TimeoutError"
           => /\ outcome[p].budget
                    = tool.max_poll_attempts * tool.poll_interval
              /\ outcome[p].task_id = task_id
              /\ Len(Fetches(p)) = AtLeast0(tool.max_poll_attempts)
              /\ \A k \in 1 .. Len(trace[p]) :
                    ~SaysFailure(trace[p][k].status)
        /\ (trace[p] # << >> /\ SaysFailure(trace[p][Len(trace[p])].status))
           => outcome[p].kind = "RuntimeError"
        /\ outcome[p].kind = "RuntimeError"
           => /\ trace[p] # << >>
              /\ SaysFailure(trace[p][Len(trace[p])].status)

\* both variants fetched a failed status on the last permitted attempt, after
\* at least one sleep
C4_Witness ==
    \A p \in Variants :
        /\ outcome[p].kind = "RuntimeError"
        /\ tool.max_poll_attempts >= 2
        /\ Len(Fetches(p)) = tool.max_poll_attempts

\* C5 as stated: for every max_poll_attempts and poll_interval, the two
\* variants, called with the same arguments and given the same answers by the
\* status endpoint, end with the same trace of fetches (with their arguments)
\* and sleeps (with their lengths) and the same outcome.
C5_AsStated ==
    (pc["async"] = "done" /\ pc["sync"] = "done")
    => /\ trace["async"] = trace["sync"]
       /\ elapsed["async"] = elapsed["sync"]
       /\ outcome["async"] = outcome["sync"]

\* C5 amended: the same, for every max_poll_attempts and every
\* poll_interval >= 0.
C5_VariantsAgree ==
    (tool.poll_interval >= 0 /\ pc["async"] = "done" /\ pc["sync"] = "done")
    => /\ trace["async"] = trace["sync"]
       /\ elapsed["async"] = elapsed["sync"]
       /\ outcome["async"] = outcome["sync"]

\* both variants have ended after two sleeps and a third fetch
C5_Witness ==
    /\ pc["async"] = "done" /\ pc["sync"] = "done"
    /\ tool.poll_interval = 2
    /\ Len(trace["async"]) = 5
    /\ outcome["sync"].kind = "RuntimeError"

\* C10 as stated: a fetch that returns a payload whose status is a case
\* variant of a success spelling ("COMPLETED", "Completed", "success") ends
\* the poll successfully with that payload.
C10_AsStated ==
    \A p \in Variants : \A k \in 1 .. Len(trace[p]) :
        (IsFetch(trace[p][k]) /\ SaysSuccessInOtherCase(trace[p][k].status))
        => /\ k = Len(trace[p])
           /\ outcome[p].kind = "return"
           /\ outcome[p].status = trace[p][k].status

\* the last status that poller p fetched is a case variant of a success
\* spelling
LastFetchInOtherCase(p) ==
    /\ Fetches(p) # << >>
    /\ SaysSuccessInOtherCase(Fetches(p)[Len(Fetches(p))].status)

\* C10 amended: success is recognised by exact match with "completed" or
\* "SUCCESS" alone, and every payload a poll returns has one of these.  A
\* payload whose status is another case variant ("COMPLETED", "Completed",
\* "success") is not terminal: the poll does not return on it and goes on to
\* its delay.  A poll whose last fetch was such a payload ends in
\* TimeoutError, with its ceiling of fetches used up; only the blocking
\* poller with a negative poll_interval ends in the ValueError of time.sleep
\* instead, right after that fetch.
C10_SuccessIsExactMatch ==
    \A p \in Variants :
        /\ \A k \in 1 .. Len(trace[p]) :
              (IsFetch(trace[p][k])
                  /\ SaysSuccessInOtherCase(trace[p][k].status))
              => /\ outcome[p].kind # "return"
                    \/ outcome[p].status # trace[p][k].status
                 /\ IF k < Len(trace[p]) THEN IsSleep(trace[p][k + 1])
                    ELSE \/ pc[p] = "sleep"
                         \/ /\ pc[p] = "done"
                            /\ p = "sync"
                            /\ tool.poll_interval < 0
        /\ (pc[p] = "done" /\ LastFetchInOtherCase(p))
           => IF p = "sync" /\ tool.poll_interval < 0
              THEN /\ outcome[p].kind = "ValueError"
                   /\ IsFetch(trace[p][Len(trace[p])])
              ELSE /\ outcome[p].kind = "TimeoutError"
                   /\ Len(Fetches(p)) = tool.max_poll_attempts
                   /\ IsSleep(trace[p][Len(trace[p])])
        /\ outcome[p].kind = "return" => SaysSuccess(outcome[p].status)

\* both variants fetched "COMPLETED", slept, polled again with the same
\* answer and ended in TimeoutError
C10_Witness ==
    \A p \in Variants :
        /\ pc[p] = "done"
        /\ outcome[p].kind = "TimeoutError"
        /\ Len(Fetches(p)) >= 2
        /\ \A k \in 1 .. Len(Fetches(p)) :
              Fetches(p)[k].status.status = "COMPLETED"
        /\ IsSleep(trace[p][2])
        /\ IsFetch(trace[p][3])

\* the blocking poller with a negative poll_interval fetched "COMPLETED" and
\* ended in ValueError
C10_WitnessNegativeInterval ==
    /\ pc["sync"] = "done"
    /\ tool.poll_interval < 0
    /\ LastFetchInOtherCase("sync")
    /\ outcome["sync"].kind = "ValueError"

----------------------------------------------------------------------------
\* What the claims speak of, read off the resolver's requests and results

\* the first GET of variant p went to the tts-result endpoint and was
\* answered with the given kind of response
PrimaryAnswered(p) ==
    /\ requests[p] # << >>
    /\ requests[p][1].path = "primary"
    /\ requests[p][1].response.kind = "response"

PrimaryFailedInTransport(p) ==
    /\ requests[p] # << >>
    /\ requests[p][1].path = "primary"
    /\ requests[p][1].response.kind = "error"

FallbackRequested(p) ==
    \E k \in 1 .. Len(requests[p]) : requests[p][k].path = "fallback"

\* the content of the file at a path
FileHolds(path, content) ==
    \E k \in 1 .. Len(files) :
        files[k].path = path /\ files[k].content = content

\* base64.b64decode, to read back what a base64 result carries
B64Value(c) == CHOOSE i \in 0 .. 63 : B64Alphabet[i + 1] = c

RECURSIVE b64decode(_)
b64decode(text) ==
    IF Len(text) < 4 THEN << >>
    ELSE LET v1 == B64Value(text[1])
             v2 == B64Value(text[2])
             rest == b64decode(SubSeq(text, 5, Len(text)))
         IN  IF text[3] = "=" THEN <<v1 * 4 + v2 \div 16>>
             ELSE IF text[4] = "="
             THEN <<v1 * 4 + v2 \div 16,
                    (v2 % 16) * 16 + B64Value(text[3]) \div 4>>
             ELSE <<v1 * 4 + v2 \div 16,
                    (v2 % 16) * 16 + B64Value(text[3]) \div 4,
                    (B64Value(text[3]) % 4) * 64 + B64Value(text[4])>> \o rest

\* the bytes variant p has delivered: the content of the file whose path it
\* returned, or what its base64 text decodes to
Delivered(p, bytes) ==
    \/ result[p].kind = "path" /\ FileHolds(result[p].path, bytes)
    \/ result[p].kind = "base64" /\ b64decode(result[p].text) = bytes

\* the 44-byte WAV header of n < 220 bytes of 16-bit mono 24 kHz PCM:
\* "RIFF", 36+n, "WAVE", "fmt ", 16, format 1, 1 channel, 24000 Hz,
\* byte rate 48000, block align 2, 16 bits, "data", n
WavHeader16Mono24k(n) ==
    <<82, 73, 70, 70, 36 + n, 0, 0, 0, 87, 65, 86, 69, 102, 109, 116, 32,
      16, 0, 0, 0, 1, 0, 1, 0, 192, 93, 0, 0, 128, 187, 0, 0, 2, 0, 16, 0,
      100, 97, 116, 97, n, 0, 0, 0>>

\* C6: when the status carries a run_id and the GET of
\* <base_url>/tts-result/<run_id> is answered 200, the resolver returns that
\* response's bytes, classified by their leading bytes (RIFF is wav whatever
\* the content type), having issued no other request and not read
\* status.message; run 42 is fetched from .../tts-result/42, and under
\* output_format "file_path" a RIFF body ends in a .wav file holding exactly
\* the response's bytes.
C6_PrimaryPath ==
    \A p \in Variants :
        (PrimaryAnswered(p) /\ requests[p][1].response.status_code = 200)
        => LET response == requests[p][1].response IN
           /\ pc[p] \in {"format", "end"}
           /\ Len(requests[p]) = 1
           /\ ~message_read[p]
           /\ audio[p].data = response.content
           /\ StartsWith(response.content, <<82, 73, 70, 70>>)
              => audio[p].format = "wav"
           /\ StatusOf(p).run_id = 42
              => requests[p][1].url =
                    (IF tool.client_wrapper.has_base_url
                     THEN tool.client_wrapper.base_url ELSE DefaultBase)
                    \o <<"/", "t", "t", "s", "-", "r", "e", "s", "u", "l", "t", "/", "4", "2">>
           /\ (/\ pc[p] = "end"
               /\ output_format[p] = "file_path"
               /\ StartsWith(response.content, <<82, 73, 70, 70>>))
              => /\ result[p].kind = "path"
                 /\ result[p].path.suffix = ".wav"
                 /\ FileHolds(result[p].path, response.content)

\* run 42 answered 200 with a RIFF body served as audio/wav, written to a
\* .wav file
C6_Witness ==
    \E p \in Variants :
        /\ pc[p] = "end"
        /\ StatusOf(p).run_id = 42
        /\ PrimaryAnswered(p)
        /\ requests[p][1].response = Response(200, RiffBody, <<"a", "u", "d", "i", "o", "/", "w", "a", "v">>)
        /\ output_format[p] = "file_path"
        /\ result[p].kind = "path"

\* C7: a transport error on the primary GET does not end the call: the
\* fallback path is taken as after a non-200 answer, and the call raises only
\* when the fallback GET has failed as well.
C7_TransportErrorFallsBack ==
    \A p \in Variants :
        PrimaryFailedInTransport(p)
        => /\ pc[p] = "raised" => FallbackRequested(p)
           /\ result[p].kind = "error" => FallbackRequested(p)

\* C8 as stated: every artifact the resolver classifies as pcm is delivered
\* (written to the file or base64-encoded) as the 16-bit mono 24 kHz WAV
\* header followed by the original bytes, in a file with extension .wav.
C8_AsStated ==
    \A p \in Variants :
        (pc[p] = "end" /\ audio[p].format = "pcm")
        => /\ Delivered(p, WavHeader16Mono24k(Len(audio[p].data))
                           \o audio[p].data)
           /\ result[p].kind = "path" => result[p].path.suffix = ".wav"

\* C8 amended: every non-empty artifact the resolver classifies as pcm is
\* delivered as the 16-bit mono 24 kHz WAV header followed by the original
\* bytes, in a file with extension .wav; the empty pcm artifact is delivered
\* as zero bytes, without header, the file still named .wav.
C8_PcmWrappedUnlessEmpty ==
    \A p \in Variants :
        (pc[p] = "end" /\ audio[p].format = "pcm")
        => /\ audio[p].data # << >>
              => Delivered(p, WavHeader16Mono24k(Len(audio[p].data))
                              \o audio[p].data)
           /\ audio[p].data = << >> => Delivered(p, << >>)
           /\ result[p].kind = "path" => result[p].path.suffix = ".wav"

\* a three-byte pcm artifact delivered as 47 bytes of base64 text
C8_Witness ==
    \E p \in Variants :
        /\ pc[p] = "end"
        /\ audio[p] = [data |-> <<1, 2, 3>>, format |-> "pcm"]
        /\ result[p].kind = "base64"
        /\ Len(b64decode(result[p].text)) = 47

\* a path of variant p has yielded bytes: the resolver got a body that is
\* not empty
YieldedBytes(p) == audio[p] # NotYet /\ audio[p].data # << >>

\* the resolver of variant p is through, by return or by exception
ResolverEnded(p) == pc[p] \in {"format", "end", "raised"}

\* C9: when the resolver has ended and neither path has yielded bytes, it
\* has returned the empty byte sequence with format pcm and raised no error.
C9_NoBytesIsEmptyPcm ==
    \A p \in Variants :
        (ResolverEnded(p) /\ ~YieldedBytes(p))
        => /\ pc[p] # "raised"
           /\ result[p].kind # "error"
           /\ audio[p] = [data |-> << >>, format |-> "pcm"]

\* the part of C9 that holds: when no primary GET was answered 200 and no
\* URL was found in status.message, so that no fallback GET was made, the
\* resolver has returned the empty byte sequence with format pcm; and an
\* error comes only from a GET that failed in transport
C9_NoUrlIsEmptyPcm ==
    \A p \in Variants :
        /\ (/\ pc[p] \in {"format", "end"}
            /\ ~(PrimaryAnswered(p)
                    /\ requests[p][1].response.status_code = 200)
            /\ ~FallbackRequested(p))
           => audio[p] = [data |-> << >>, format |-> "pcm"]
        /\ result[p].kind = "error"
           => /\ requests[p] # << >>
              /\ requests[p][Len(requests[p])].response.kind = "error"

\* a GET answered 200 with an empty body and a content-type that names a
\* format: no bytes, and the format is not pcm
C9_EmptyBodyKeepsFormat ==
    \E p \in Variants :
        /\ ResolverEnded(p)
        /\ ~YieldedBytes(p)
        /\ audio[p] # NotYet
        /\ audio[p].format # "pcm"

----------------------------------------------------------------------------
\* What the claims speak of, read off the temporary files

\* the extension that belongs to a detected audio format
ExtensionOf(format) ==
    CASE format = "wav" -> ".wav"
      [] format = "mp3" -> ".mp3"
      [] format = "flac" -> ".flac"
      [] format = "ogg" -> ".ogg"
      [] format = "pcm" -> ".wav"

\* the complete artifact of variant p: the resolved bytes, behind a WAV header
\* when they are non-empty raw pcm
Artifact(p) ==
    IF audio[p].format = "pcm" /\ audio[p].data # << >>
    THEN WavHeader16Mono24k(Len(audio[p].data)) \o audio[p].data
    ELSE audio[p].data

\* the files at a path
FilesAt(path) == {k \in 1 .. Len(files) : files[k].path = path}

ReturnedPath(p) == pc[p] = "end" /\ output_format[p] = "file_path"

\* C11: under output_format "file_path" a call that has returned has returned
\* the path of a file created by that call, which holds the complete artifact
\* bytes and whose extension is that of the normalized format (.wav, .mp3,
\* .flac, .ogg; pcm gives .wav); two calls never return the same path, no two
\* files share a path, and a file whose path was returned still exists with
\* the content it was returned with in every later state: nothing deletes,
\* truncates or rewrites it.
C11_FilePathWritesNewFile ==
    /\ \A p \in Variants :
          ReturnedPath(p)
          => /\ result[p].kind = "path"
             /\ Cardinality(FilesAt(result[p].path)) = 1
             /\ FileHolds(result[p].path, Artifact(p))
             /\ result[p].path.suffix = ExtensionOf(audio[p].format)
    /\ (ReturnedPath("async") /\ ReturnedPath("sync"))
          => result["async"].path # result["sync"].path
    /\ \A k, l \in 1 .. Len(files) : files[k].path = files[l].path => k = l
    /\ Len(files) = Cardinality({p \in Variants : ReturnedPath(p)})

\* both calls have returned the path of an .mp3 file: two files, each with
\* the bytes of its own call
C11_Witness ==
    /\ ReturnedPath("async") /\ ReturnedPath("sync")
    /\ result["async"].path.suffix = ".mp3"
    /\ result["sync"].path.suffix = ".mp3"
    /\ audio["async"].data # audio["sync"].data
    /\ Len(files) = 2

----------------------------------------------------------------------------
\* What the claims speak of, read off an invocation

\* the tools whose input names an audio source
TakesAudioSource(p) ==
    args[p].tool \in {"camb_transcription", "camb_audio_separation"}

\* the number of audio sources the input provides (a source given as None or
\* as the empty string is not provided)
SourcesProvided(p) ==
    (IF TruthyStr(args[p].audio_url) THEN 1 ELSE 0)
    + (IF TruthyStr(args[p].audio_file_path) THEN 1 ELSE 0)

\* the calls of variant p on the client whose method is among the given ones
SdkCalls(p, methods) ==
    SelectSeq(sdk[p], LAMBDA call : call.method \in methods)

CreateMethods ==
    { "create_transcription", "create_audio_separation",
      "create_translated_tts", "create_text_to_audio" }

ResultMethods ==
    { "get_transcription_result", "get_audio_separation_run_info",
      "get_text_to_audio_result" }

\* C12: an invocation of the transcription or the audio-separation tool whose
\* input provides neither audio_url nor audio_file_path, or both, never makes
\* a create call, a status fetch or a result fetch, and once its input has
\* been validated it has ended with a validation error; an input with exactly
\* one source is never rejected by the validation.
C12_SourceValidatedBeforeSubmit ==
    \A p \in Variants :
        TakesAudioSource(p)
        => /\ SourcesProvided(p) # 1
              => /\ sdk[p] = << >>
                 /\ trace[p] = << >>
                 /\ requests[p] = << >>
                 /\ files = << >>
                 /\ pc[p] \in {"invoke", "rejected"}
                 /\ pc[p] = "rejected"
                    => result[p] = Raised("ValidationError")
           /\ SourcesProvided(p) = 1
              => /\ pc[p] # "rejected"
                 /\ result[p] # Raised("ValidationError")

\* an input with both sources has been rejected
C12_Witness ==
    \E p \in Variants :
        /\ TakesAudioSource(p)
        /\ SourcesProvided(p) = 2
        /\ pc[p] = "rejected"
        /\ result[p].error = "ValidationError"

\* the answer translation_stream gave to variant p
TranslationAnswer(p) == sdk[p][1].answer

\* C13: when translation_stream raises an ApiError whose status code is 200
\* and whose body is non-empty, the tool returns the text of that body; an
\* ApiError with any other status code, or with status code 200 and an empty
\* body (None, "" or {}), leaves the tool as the very exception that was
\* raised.  Both variants follow the rule.
C13_SuccessViaErrorChannel ==
    \A p \in Variants :
        (args[p].tool = "camb_translation" /\ sdk[p] # << >>
            /\ TranslationAnswer(p).kind = "ApiError")
        => LET e == TranslationAnswer(p) IN
           IF e.status_code = 200
              /\ e.body \notin {PyObject("None", "None"), PyObject("str", ""),
                                PyObject("dict", "{}")}
           THEN /\ pc[p] = "end"
                /\ result[p].kind = "text"
                /\ value[p] = [kind |-> "str", s |-> e.body.s]
           ELSE /\ pc[p] = "raised"
                /\ result[p] = Raised("ApiError")
                /\ value[p] = e

\* the async variant has returned the body of an ApiError with status 200
C13_Witness ==
    /\ args["async"].tool = "camb_translation"
    /\ sdk["async"] # << >>
    /\ TranslationAnswer("async") = ApiError(200, PyObject("str", "Hola"))
    /\ pc["async"] = "end"
    /\ value["async"] = [kind |-> "str", s |-> "Hola"]

----------------------------------------------------------------------------
\* What the claims speak of, read off a formatted transcription

\* variant p has returned the JSON document of a transcription
Formatted(p) ==
    /\ args[p].tool = "camb_transcription"
    /\ pc[p] = "end"
    /\ value[p].kind = "json"

\* the transcription get_transcription_result returned to variant p
TranscriptionOf(p) == sdk[p][Len(sdk[p])].answer

\* the labels of the segments of a transcription that are not None
NonNullLabels(transcription) ==
    { transcription.segments[k].speaker.s :
        k \in { i \in 1 .. Len(transcription.segments) :
                  /\ transcription.segments[i].has_speaker
                  /\ transcription.segments[i].speaker # PyNone } }

NoLabelTwice(speakers) ==
    \A i, j \in 1 .. Len(speakers) : speakers[i] = speakers[j] => i = j

\* C14: the speakers of a formatted transcription list no label twice, whether
\* they come from the speakers list of the result or, that list being absent,
\* from the segments; in the second case they are exactly the distinct labels
\* of the segments that are not None.
C14_SpeakersDeduplicated ==
    \A p \in Variants :
        Formatted(p)
        => /\ NoLabelTwice(value[p].speakers)
           /\ TranscriptionOf(p).speakers_attr = "absent"
              => { value[p].speakers[k] : k \in 1 .. Len(value[p].speakers) }
                 = NonNullLabels(TranscriptionOf(p))

----------------------------------------------------------------------------
\* What the claims speak of, read off a voice listing

\* variant p has returned the JSON list of the voices
VoicesListed(p) ==
    /\ args[p].tool = "camb_voice_list"
    /\ pc[p] = "end"
    /\ value[p].kind = "json"

\* the list list_voices returned to variant p
VoicesOf(p) == sdk[p][Len(sdk[p])].answer

SameFields(a, b) ==
    \A key \in {"id", "voice_name", "name", "gender", "age", "language"} :
        a[key] = b[key]

\* the value of a field that is there, null for one that is missing
OrNull(field) == IF field = NoKey THEN VNone ELSE field

\* C15: the listing has one record per entry of the list list_voices
\* returned, in the order of that list; the record has id, name, gender, age
\* and language; name is the entry's voice_name, else its name, else
\* "Unknown"; id, age and language are null when the entry lacks them; and
\* two entries with the same field values, one a dict and one an object, give
\* the same record.
C15_VoicesNormalized ==
    \A p \in Variants :
        VoicesListed(p)
        => LET voices == VoicesOf(p)
               records == value[p].voices
           IN
           /\ Len(records) = Len(voices)
           /\ \A k \in 1 .. Len(voices) :
                /\ DOMAIN records[k]
                   = {"id", "name", "gender", "age", "language"}
                /\ records[k].name
                   = IF voices[k].voice_name # NoKey
                     THEN voices[k].voice_name
                     ELSE IF voices[k].name # NoKey THEN voices[k].name
                     ELSE VStr("Unknown")
                /\ records[k].id = OrNull(voices[k].id)
                /\ records[k].age = OrNull(voices[k].age)
                /\ records[k].language = OrNull(voices[k].language)
           /\ \A k, j \in 1 .. Len(voices) :
                SameFields(voices[k], voices[j]) => records[k] = records[j]

\* the sync variant has listed a dict and an object that both carry a
\* voice_name and a name, and a dict that carries neither
C15_Witness ==
    /\ VoicesListed("sync")
    /\ Len(VoicesOf("sync")) = 2
    /\ \E k, j \in 1 .. 2 :
        /\ VoicesOf("sync")[k].kind = "dict"
        /\ VoicesOf("sync")[j].kind = "object"
        /\ SameFields(VoicesOf("sync")[k], VoicesOf("sync")[j])
        /\ VoicesOf("sync")[k].voice_name = VStr("Ann")
        /\ VoicesOf("sync")[k].name = VStr("Bob")
        /\ VoicesOf("sync")[k].id = NoKey
        /\ VoicesOf("sync")[k].age = NoKey
        /\ value["sync"].voices[j].name = VStr("Ann")
        /\ value["sync"].voices[j].id = VNone
        /\ value["sync"].voices[j].age = VNone

\* C16: every integer gender code of a listed voice is turned into a string:
\* 0, 1, 2 and 9 into "not_specified", "male", "female" and "not_applicable",
\* any other integer into "unknown"; the listing never ends in an error.
C16_GenderMapTotal ==
    \A p \in Variants :
        (args[p].tool = "camb_voice_list" /\ sdk[p] # << >>)
        => /\ VoicesListed(p)
           /\ \A k \in 1 .. Len(VoicesOf(p)) :
                VoicesOf(p)[k].gender.t = "int"
                => value[p].voices[k].gender
                   = VStr(CASE VoicesOf(p)[k].gender.n = 0 -> "not_specified"
                            [] VoicesOf(p)[k].gender.n = 1 -> "male"
                            [] VoicesOf(p)[k].gender.n = 2 -> "female"
                            [] VoicesOf(p)[k].gender.n = 9 -> "not_applicable"
                            [] OTHER -> "unknown")

\* the async variant has listed a voice of gender 9 and one of gender 5
C16_Witness ==
    /\ VoicesListed("async")
    /\ Len(VoicesOf("async")) = 2
    /\ VoicesOf("async")[1].gender = VInt(9)
    /\ VoicesOf("async")[2].gender = VInt(5)
    /\ value["async"].voices[1].gender = VStr("not_applicable")
    /\ value["async"].voices[2].gender = VStr("unknown")

----------------------------------------------------------------------------
\* What the claims speak of, read off a toolkit

\* get_tools has been called
ToolsAsked == got # NoTools

\* the key the toolkit has: its api_key field, else CAMB_API_KEY
KeyAvailable == TruthyStr(toolkit.api_key) \/ TruthyStr(environ)

KeyOfToolkit == IF TruthyStr(toolkit.api_key) THEN toolkit.api_key ELSE environ

\* how many of the tools returned have the given name
CountOf(name) ==
    Cardinality({k \in 1 .. Len(got.tools) : got.tools[k].name = name})

\* C17: for every setting of the eight include flags get_tools returns one
\* tool for each flag that is true and none for a flag that is false, all
\* eight distinct tools when every flag is true; each tool has the toolkit's
\* API key, base_url and timeout.  With no API key in the field or in
\* CAMB_API_KEY it raises ValueError and returns no tool.
C17_ToolsFollowFlags ==
    ToolsAsked
    => IF KeyAvailable
       THEN /\ got.kind = "list"
            /\ \A c \in 1 .. Len(ToolClasses) :
                 CountOf(ToolClasses[c].name)
                 = IF toolkit[ToolClasses[c].flag] THEN 1 ELSE 0
            /\ Len(got.tools)
               = Cardinality({c \in 1 .. Len(ToolClasses) :
                                toolkit[ToolClasses[c].flag]})
            /\ \A k \in 1 .. Len(got.tools) :
                 /\ got.tools[k].api_key = KeyOfToolkit
                 /\ got.tools[k].base_url = toolkit.base_url
                 /\ got.tools[k].timeout = toolkit.timeout
       ELSE /\ got.kind = "ValueError"
            /\ got.tools = << >>

\* a toolkit without an api_key, with CAMB_API_KEY set, that includes only
\* the translation and the voice list tools has returned these two
C17_Witness ==
    /\ ToolsAsked
    /\ toolkit.api_key = PyNone
    /\ environ = PyStr("env-key")
    /\ \A c \in 1 .. Len(ToolClasses) :
         toolkit[ToolClasses[c].flag]
         <=> ToolClasses[c].name \in {"camb_translation", "camb_voice_list"}
    /\ Len(got.tools) = 2
    /\ got.tools[1].name = "camb_translation"
    /\ got.tools[2].name = "camb_voice_list"
    /\ got.tools[2].api_key = PyStr("env-key")

----------------------------------------------------------------------------
\* What the claims speak of, read off the order of an invocation's steps

\* the tools that submit a task and poll it
PollingTools ==
    { "camb_transcription", "camb_audio_separation", "camb_translated_tts",
      "camb_text_to_sound" }

\* variant p has fetched the status of its task
StatusFetched(p) == \E k \in 1 .. Len(trace[p]) : trace[p][k].op = "fetch"

\* variant p has submitted its task
Submitted(p) == SdkCalls(p, CreateMethods) # << >>

\* variant p has fetched a result: a GET of the resolver or a get_*_result
\* call on the client
ResultFetched(p) ==
    requests[p] # << >> \/ SdkCalls(p, ResultMethods) # << >>

\* the poll of variant p has returned a status that says success
PollSucceeded(p) ==
    /\ outcome[p].kind = "return"
    /\ outcome[p].status.has_status
    /\ outcome[p].status.status \in {"completed", "SUCCESS"}

\* the poll of variant p has raised RuntimeError or TimeoutError
PollFailed(p) == outcome[p].kind \in {"RuntimeError", "TimeoutError"}

\* C18: in an invocation of a polling tool no status is fetched before the
\* task is submitted; no result is fetched and no file is created before the
\* poll has returned a status that says success, and no file is created
\* before the result is there; when the poll raises RuntimeError or
\* TimeoutError the invocation ends with that error, without a result fetch
\* and without a file.
C18_SubmitPollResolveEncode ==
    \A p \in Variants :
        args[p].tool \in PollingTools
        => /\ StatusFetched(p) => Submitted(p)
           /\ outcome[p] # Running => Submitted(p)
           /\ ResultFetched(p) => PollSucceeded(p)
           /\ audio[p] # NotYet => PollSucceeded(p)
           /\ files # << >> => PollSucceeded(p) /\ pc[p] = "end"
           /\ files # << >>
              => audio[p] # NotYet \/ SdkCalls(p, ResultMethods) # << >>
           /\ PollFailed(p)
              => /\ ~ResultFetched(p)
                 /\ files = << >>
                 /\ pc[p] \in {"done", "raised"}
                 /\ pc[p] = "raised" => result[p] = Raised(outcome[p].kind)
           /\ pc[p] \in {"resolve", "fallback", "format", "result", "stream",
                        "drain", "end"}
              => PollSucceeded(p)

\* the sync variant of the translated-TTS tool has submitted, fetched a
\* pending and then a completed status, fetched the audio and written it to a
\* file
C18_Witness ==
    /\ args["sync"].tool = "camb_translated_tts"
    /\ Submitted("sync")
    /\ Len(trace["sync"]) = 3
    /\ trace["sync"][1].op = "fetch"
    /\ trace["sync"][1].status.status = "pending"
    /\ trace["sync"][3].op = "fetch"
    /\ PollSucceeded("sync")
    /\ requests["sync"] # << >>
    /\ files # << >>
    /\ pc["sync"] = "end"

----------------------------------------------------------------------------
\* What the claims speak of, read off the order of the resolver's requests

\* the positions in the requests of variant p of the GETs on the given path
GetsOn(p, path) ==
    {k \in 1 .. Len(requests[p]) : requests[p][k].path = path}

\* C20: a resolver call issues at most one GET of the tts-result endpoint and
\* at most one GET of the URL in status.message, the first before the second;
\* the second is issued only when the status has no run_id, in which case
\* there was no first, or when the first was answered with a status code
\* other than 200; after an answer of 200 it is never issued.
C20_FallbackOnlyAfterPrimary ==
    \A p \in Variants :
        LET primary == GetsOn(p, "primary")
            fallback == GetsOn(p, "fallback")
        IN
        /\ Cardinality(primary) <= 1
        /\ Cardinality(fallback) <= 1
        /\ \A k \in primary, j \in fallback : k < j
        /\ primary # {} => Truthy(StatusOf(p).run_id)
        /\ fallback # {}
           => \/ ~Truthy(StatusOf(p).run_id) /\ primary = {}
              \/ \E k \in primary :
                   /\ requests[p][k].response.kind = "response"
                   /\ requests[p][k].response.status_code # 200
        /\ \A k \in primary :
             (/\ requests[p][k].response.kind = "response"
              /\ requests[p][k].response.status_code = 200)
             => fallback = {}

\* the async variant, given a status with a run_id, was answered 404 on the
\* tts-result endpoint and then fetched the URL in status.message
C20_Witness ==
    /\ Truthy(StatusOf("async").run_id)
    /\ Len(requests["async"]) = 2
    /\ requests["async"][1].path = "primary"
    /\ requests["async"][1].response.status_code = 404
    /\ requests["async"][2].path = "fallback"
    /\ requests["async"][2].response.kind = "response"

----------------------------------------------------------------------------
\* What the claims speak of, read off the concurrent poll calls

\* the statuses call c was answered, in order
OwnScript(c) ==
    LET fetches == SelectSeq(calls[c].trace, LAMBDA e : e.op = "fetch")
    IN  [k \in 1 .. Len(fetches) |-> fetches[k].status]

NumFetches(c) ==
    Len(SelectSeq(calls[c].trace, LAMBDA e : e.op = "fetch"))

NumSleeps(c) ==
    Len(SelectSeq(calls[c].trace, LAMBDA e : e.op = "sleep"))

\* C19: whatever the other calls do and however the steps interleave, a poll
\* call that has ended has made the fetches and the sleeps, and has the
\* outcome, of the same call run alone on the statuses it was answered and the
\* configuration of its tool instance; and while a call is in its delay every
\* other call that has not ended can take its next step.
C19_ConcurrentPollsIndependent ==
    \A c \in DOMAIN calls :
        /\ calls[c].pc = "done"
           => [fetches |-> NumFetches(c), sleeps |-> NumSleeps(c),
               outcome |-> calls[c].outcome]
              = SoloRun(calls[c].variant, instances[calls[c].instance],
                        calls[c].task_id, OwnScript(c), 0)
        /\ calls[c].pc = "sleeping"
           => \A d \in DOMAIN calls \ {c} :
                calls[d].pc # "done" => ENABLED CallStep(d)

\* two coroutines on one tool instance and a thread on another, the
\* instances configured differently: the first coroutine is in its first
\* delay, the second has returned after two fetches, the thread is in a delay
C19_Witness ==
    /\ calls # << >>
    /\ calls[1].variant = "async" /\ calls[2].variant = "async"
    /\ calls[1].instance = calls[2].instance
    /\ calls[3].variant = "sync"
    /\ instances[1] # instances[2]
    /\ calls[1].pc = "sleeping" /\ calls[1].attempt = 0
    /\ calls[2].pc = "done" /\ calls[2].outcome.kind = "return"
    /\ NumFetches(2) = 2 /\ NumSleeps(2) = 1
    /\ calls[3].pc = "sleeping" /\ held[3] = 3

----------------------------------------------------------------------------
\* What the claims speak of, read off status.message and the fallback GET

\* the mapping holds a value under the key that Python takes for true
Holds(d, key) == key \in DOMAIN d /\ d[key] # << >>

\* the first of output_url, audio_url, url under which the mapping holds a
\* value, or << >> when it holds none
FirstHeld(d) ==
    IF Holds(d, "output_url") THEN d["output_url"]
    ELSE IF Holds(d, "audio_url") THEN d["audio_url"]
    ELSE IF Holds(d, "url") THEN d["url"]
    ELSE << >>

\* the text begins with the four characters h, t, t, p
BeginsWithHttp(text) == Len(text) >= 4 /\ SubSeq(text, 1, 4) = Http

\* the text begins with a URL scheme: letters, then "://"
BeginsWithScheme(text) ==
    \E k \in 1 .. (Len(text) - 3) :
        /\ \A i \in 1 .. k :
              \E j \in 1 .. 26 : text[i] \in {LowerCase[j], UpperCase[j]}
        /\ SubSeq(text, k + 1, k + 3) = <<":", "/", "/">>

\* the URLs of the GETs that variant p issued outside the tts-result endpoint
FallbackUrls(p) == {requests[p][k].url : k \in GetsOn(p, "fallback")}

\* variant p is through with status.message
MessageSettled(p) == message_read[p] /\ pc[p] \in {"format", "end", "raised"}

\* the URL that the priority order finds in a message, << >> for none, when
\* a string counts as a URL by the given test
Discovered(m, IsUrl(_)) ==
    IF m.kind = "dict" THEN FirstHeld(m.dict)
    ELSE IF m.kind = "str" /\ IsUrl(m.str) THEN m.str
    ELSE << >>

\* the fallback GETs of variant p are exactly the one on the given URL, or
\* none when the URL is << >>
FallbackGoesTo(p, url) ==
    FallbackUrls(p) = (IF url = << >> THEN {} ELSE {url})

\* C21: once a resolver call has read status.message, the URL of its
\* fallback GET is, for a mapping, the first value held under output_url,
\* audio_url, url in that order (a key that is absent or holds an empty
\* value is passed over); for a string that begins with the four characters
\* "http", the string itself; in every other case no fallback GET is issued.
C21_FallbackUrlPriority ==
    \A p \in Variants :
        MessageSettled(p) =>
            FallbackGoesTo(p, Discovered(StatusOf(p).message, BeginsWithHttp))

\* a mapping without output_url, holding audio_url and url: the GET went to
\* the value under audio_url
C21_Witness ==
    /\ MessageSettled("sync")
    /\ StatusOf("sync").message = DictMessage([audio_url |-> UrlB, url |-> UrlC])
    /\ FallbackUrls("sync") = {UrlB}

\* C21 as stated: a string counts as the URL when it begins with a URL
\* scheme
C21_AsStated ==
    \A p \in Variants :
        MessageSettled(p) =>
            FallbackGoesTo(p, Discovered(StatusOf(p).message, BeginsWithScheme))

----------------------------------------------------------------------------
\* What the claims speak of, read off the bytes, the content-type string
\* and the detected format

\* the magic sequences, each with its format
MagicSequences ==
    { <<<<82, 73, 70, 70>>, "wav">>, <<<<255, 251>>, "mp3">>,
      <<<<255, 250>>, "mp3">>, <<<<73, 68, 51>>, "mp3">>,
      <<<<102, 76, 97, 67>>, "flac">>, <<<<79, 103, 103, 83>>, "ogg">> }

\* the formats whose magic sequence the bytes begin with
MagicFormats(audio_data) ==
    {m[2] : m \in {n \in MagicSequences :
                      /\ Len(audio_data) >= Len(n[1])
                      /\ \A i \in 1 .. Len(n[1]) : audio_data[i] = n[1][i]}}

\* the names looked for in the content-type string, in the order of their
\* tests, each with its format
TypeNames ==
    << <<<<"w", "a", "v">>, "wav">>, <<<<"w", "a", "v", "e">>, "wav">>,
       <<<<"m", "p", "e", "g">>, "mp3">>, <<<<"m", "p", "3">>, "mp3">>,
       <<<<"f", "l", "a", "c">>, "flac">>, <<<<"o", "g", "g">>, "ogg">> >>

\* the name occurs in the text, whatever the case of the text's letters
Names(text, name) ==
    \E i \in 1 .. (Len(text) - Len(name) + 1) :
        \A j \in 1 .. Len(name) :
            \/ text[i + j - 1] = name[j]
            \/ \E l \in 1 .. 26 :
                  UpperCase[l] = text[i + j - 1] /\ LowerCase[l] = name[j]

\* the positions in TypeNames of the names that occur in the text
NamesIn(text) == {k \in 1 .. Len(TypeNames) : Names(text, TypeNames[k][1])}

\* the format of the first name that occurs, "pcm" when none does
HintedFormat(text) ==
    IF NamesIn(text) = {} THEN "pcm"
    ELSE TypeNames[CHOOSE k \in NamesIn(text) :
                      \A l \in NamesIn(text) : k <= l][2]

Detected == yielded # << >> /\ "content_type" \in DOMAIN given

\* C22: when the bytes begin with a magic sequence the detected format is
\* that sequence's format whatever the content-type string; otherwise it is
\* the format of the first of wav, wave, mpeg, mp3, flac, ogg that occurs in
\* the content-type string without regard to case, and pcm when none occurs.
C22_ContentFirstHeaderSecond ==
    Detected =>
        IF MagicFormats(given.audio_data) # {}
        THEN MagicFormats(given.audio_data) = {yielded[1]}
        ELSE yielded[1] = HintedFormat(given.content_type)

\* RIFF bytes sent as audio/flac are wav
C22_Witness ==
    /\ Detected
    /\ given.audio_data = RiffBody
    /\ given.content_type = <<"a", "u", "d", "i", "o", "/", "f", "l", "a", "c">>
    /\ yielded = <<"wav">>

\* bytes without magic sequence under a content-type that names ogg and flac
C22_WitnessOrder ==
    /\ Detected
    /\ given.audio_data = <<1, 2, 3>>
    /\ NamesIn(given.content_type) = {5, 6}
    /\ yielded = <<"flac">>

\* the bytes begin with an MPEG audio frame sync: eleven set bits
FrameSync(audio_data) ==
    /\ Len(audio_data) >= 2
    /\ audio_data[1] = 255
    /\ audio_data[2] >= 224

\* the content-type string names no format
NoHint(text) == NamesIn(text) = {}

\* the format by the leading bytes alone, when the frame-sync bytes are
\* those of the given test
ByLeadingBytes(audio_data, Sync(_)) ==
    IF StartsWith(audio_data, <<82, 73, 70, 70>>) THEN "wav"
    ELSE IF StartsWith(audio_data, <<102, 76, 97, 67>>) THEN "flac"
    ELSE IF StartsWith(audio_data, <<79, 103, 103, 83>>) THEN "ogg"
    ELSE IF StartsWith(audio_data, <<73, 68, 51>>) \/ Sync(audio_data) THEN "mp3"
    ELSE "pcm"

\* the two byte pairs that the detector takes for a frame sync
FrameSyncTested(audio_data) ==
    /\ Len(audio_data) >= 2
    /\ audio_data[1] = 255
    /\ audio_data[2] \in {250, 251}

\* C23: under a content-type string that names no format, bytes beginning
\* with RIFF are wav, with fLaC flac, with OggS ogg, with ID3 or with the
\* byte pairs FF FB or FF FA mp3, and all other bytes, the empty sequence
\* and other frame syncs such as FF F3 among them, are pcm; the result is
\* always one of wav, mp3, flac, ogg, pcm.
C23_ClassifiedByLeadingBytes ==
    Detected =>
        /\ yielded[1] \in {"wav", "mp3", "flac", "ogg", "pcm"}
        /\ NoHint(given.content_type) =>
              yielded[1] = ByLeadingBytes(given.audio_data, FrameSyncTested)

\* FF FA without content-type is mp3, and so detected
C23_Witness ==
    /\ Detected
    /\ given.audio_data = <<255, 250>>
    /\ given.content_type = << >>
    /\ yielded = <<"mp3">>

\* C23 as stated: every MPEG audio frame sync makes the bytes mp3
C23_AsStated ==
    Detected =>
        /\ yielded[1] \in {"wav", "mp3", "flac", "ogg", "pcm"}
        /\ NoHint(given.content_type) =>
              yielded[1] = ByLeadingBytes(given.audio_data, FrameSync)

----------------------------------------------------------------------------
\* What the claims speak of, read off the bytes with a WAV header

\* the unsigned little-endian number in the bytes at the given places
U32(bytes, at) ==
    bytes[at] + 256 * bytes[at + 1] + 65536 * bytes[at + 2]
    + 16777216 * bytes[at + 3]
U16(bytes, at) == bytes[at] + 256 * bytes[at + 1]

Headed == yielded # << >> /\ "pcm_data" \in DOMAIN given

\* C24: for PCM bytes of length N the result has N+44 bytes: RIFF, the
\* chunk size 36+N, WAVE, "fmt " with size 16, format code 1, 1 channel,
\* sample rate 24000, byte rate 48000, block align 2, 16 bits per sample,
\* then "data", the data size N and the N bytes unchanged and in order.
C24_WavHeaderLayout ==
    Headed =>
        LET pcm == given.pcm_data
            N == Len(given.pcm_data)
            out == yielded[1]
        IN  /\ Len(out) = N + 44
            /\ SubSeq(out, 1, 4) = <<82, 73, 70, 70>>
            /\ U32(out, 5) = 36 + N
            /\ SubSeq(out, 9, 16) = <<87, 65, 86, 69, 102, 109, 116, 32>>
            /\ U32(out, 17) = 16
            /\ U16(out, 21) = 1
            /\ U16(out, 23) = 1
            /\ U32(out, 25) = 24000
            /\ U32(out, 29) = 48000
            /\ U16(out, 33) = 2
            /\ U16(out, 35) = 16
            /\ SubSeq(out, 37, 40) = <<100, 97, 116, 97>>
            /\ U32(out, 41) = N
            /\ \A i \in 1 .. N : out[44 + i] = pcm[i]

\* 256 bytes: both size fields carry into their second byte
C24_Witness ==
    /\ Headed
    /\ Len(given.pcm_data) = 256
    /\ SubSeq(yielded[1], 5, 8) = <<36, 1, 0, 0>>
    /\ SubSeq(yielded[1], 41, 44) = <<0, 1, 0, 0>>
    /\ SubSeq(yielded[1], 45, 300) = given.pcm_data

----------------------------------------------------------------------------
\* What the claims speak of, read off a stream and the artifact made of it

\* the number of bytes in the first k chunks
RECURSIVE BytesBefore(_, _)
BytesBefore(chunks, k) ==
    IF k = 0 THEN 0 ELSE BytesBefore(chunks, k - 1) + Len(chunks[k])

\* the bytes are the chunks one after the other, each once and in order
ChunksInOrder(bytes, chunks) ==
    /\ Len(bytes) = BytesBefore(chunks, Len(chunks))
    /\ \A k \in 1 .. Len(chunks) :
          \A i \in 1 .. Len(chunks[k]) :
              bytes[BytesBefore(chunks, k - 1) + i] = chunks[k][i]

\* the bytes of the artifact that variant p returned, whatever its form
ArtifactBytes(p) ==
    CASE result[p].kind = "bytes" -> result[p].bytes
      [] result[p].kind = "base64" -> b64decode(result[p].text)
      [] result[p].kind = "path" ->
            (CHOOSE f \in {files[k] : k \in 1 .. Len(files)} :
                f.path = result[p].path).content

Streamed(p) == pc[p] \in {"drain", "end", "raised"} /\ "chunks" \in DOMAIN given

\* C25: a streaming tool makes one client call and takes its chunks one at
\* a time in the order of arrival; when the stream ends, the artifact holds
\* the chunks one after the other, none dropped, repeated or moved; and the
\* sync and the async variant, given the same chunks, return the same bytes.
C25_ArtifactIsChunksInOrder ==
    /\ \A p \in Variants :
          Streamed(p) =>
             /\ Len(sdk[p]) = 1
             /\ Len(yielded[p]) <= Len(given.chunks)
             /\ yielded[p] = SubSeq(given.chunks, 1, Len(yielded[p]))
             /\ pc[p] = "end" =>
                   /\ yielded[p] = given.chunks
                   /\ ChunksInOrder(ArtifactBytes(p), given.chunks)
    /\ (Streamed("sync") /\ pc["sync"] = "end" /\ pc["async"] = "end")
          => ArtifactBytes("sync") = ArtifactBytes("async")

\* two chunks, both variants at their end, one with a file and one with
\* base64 text, each holding the three bytes in order
C25_Witness ==
    /\ Streamed("sync")
    /\ given.chunks = <<<<1, 2>>, <<3>>>>
    /\ pc["sync"] = "end" /\ pc["async"] = "end"
    /\ result["sync"].kind = "path" /\ result["async"].kind = "base64"
    /\ ArtifactBytes("sync") = <<1, 2, 3>>
    /\ ArtifactBytes("async") = <<1, 2, 3>>

----------------------------------------------------------------------------
\* What the claims speak of, read off the headers of the resolver's GETs

\* the request carries the instance's API key in the x-api-key header
CarriesApiKey(request) == <<"x-api-key", tool.api_key>> \in request.headers

\* C26: every GET of the resolver, the one of the URL found in
\* status.message as much as the one of the tts-result endpoint, carries the
\* x-api-key header with the instance's API key.
C26_FallbackGetAuthenticated ==
    \A p \in Variants :
        \A k \in 1 .. Len(requests[p]) : CarriesApiKey(requests[p][k])

\* the part of C26 that holds: the GET of the tts-result endpoint carries
\* the header
C26_PrimaryGetAuthenticated ==
    \A p \in Variants :
        \A k \in GetsOn(p, "primary") : CarriesApiKey(requests[p][k])

----------------------------------------------------------------------------
\* What the claims speak of, read off the end of a poll

Ceiling == IF tool.max_poll_attempts < 0 THEN 0 ELSE tool.max_poll_attempts

PollEndedAs(p, kinds) == pc[p] = "done" /\ outcome[p].kind \in kinds

\* the poll is within its ceiling, and if it has ended, it ended in one of
\* the given kinds; with no attempt allowed it did nothing but raise
\* TimeoutError
WithinCeiling(p, kinds) ==
    /\ Len(Fetches(p)) <= Ceiling
    /\ pc[p] = "done" => outcome[p].kind \in kinds
    /\ tool.max_poll_attempts <= 0 =>
          /\ trace[p] = << >>
          /\ pc[p] = "done" => outcome[p].kind = "TimeoutError"

\* the kinds of end a poller can come to: the ValueError of time.sleep is
\* open to the blocking poller with a negative poll_interval only
EndsOf(p) ==
    IF p = "sync" /\ tool.poll_interval < 0
    THEN {"return", "RuntimeError", "TimeoutError", "ValueError"}
    ELSE {"return", "RuntimeError", "TimeoutError"}

\* C27: whatever the status endpoint answers and whatever integer
\* max_poll_attempts is, a poll whose fetches return ends, after no more
\* than max(0, max_poll_attempts) fetches, by returning a payload, with
\* RuntimeError or with TimeoutError, or, for the blocking poller with a
\* negative poll_interval, with the ValueError of its first sleep; with
\* max_poll_attempts of 0 or less it raises TimeoutError without a fetch or
\* a sleep.
C27_PollTerminates ==
    /\ [](\A p \in Variants : WithinCeiling(p, EndsOf(p)))
    /\ \A p \in Variants : <>(pc[p] = "done")

\* a negative ceiling: both pollers raised TimeoutError at once
C27_Witness ==
    /\ tool.max_poll_attempts = -1
    /\ \A p \in Variants :
          PollEndedAs(p, {"TimeoutError"}) /\ trace[p] = << >>

\* a poll that used its whole ceiling of fetches
C27_WitnessCeiling ==
    /\ tool.max_poll_attempts = MaxAttempts
    /\ PollEndedAs("async", {"TimeoutError"})
    /\ Len(Fetches("async")) = MaxAttempts

\* C27 as stated: three kinds of end, for both pollers and every interval
C27_AsStated ==
    /\ [](\A p \in Variants :
            WithinCeiling(p, {"return", "RuntimeError", "TimeoutError"}))
    /\ \A p \in Variants : <>(pc[p] = "done")

----------------------------------------------------------------------------
\* What the claims speak of, read off the clients constructed and returned

\* the clients of a class constructed so far
ConstructedOf(class) ==
    {k \in 1 .. Len(constructed) : constructed[k].class = class}

\* the clients that the invocations through with the property were given
ClientsGot(invocations) ==
    {threads[i].got : i \in {j \in invocations : threads[j].pc = "done"}}

\* C28: however the invocations of one tool instance interleave, at most
\* one CambAI and at most one AsyncCambAI is ever constructed for it, and
\* all invocations are given the same client of their kind.
C28_ClientConstructedOnce ==
    /\ Cardinality(ConstructedOf("CambAI")) <= 1
    /\ Cardinality(ClientsGot(SyncInvocations)) <= 1
    /\ Cardinality(ConstructedOf("AsyncCambAI")) <= 1
    /\ Cardinality(ClientsGot(AsyncInvocations)) <= 1

\* the part of C28 that holds: under cooperative scheduling the async client
\* is constructed at most once, all coroutines are given that one, and the
\* field is set when a coroutine has been through the property
C28_AsyncClientConstructedOnce ==
    /\ Cardinality(ConstructedOf("AsyncCambAI")) <= 1
    /\ ClientsGot(AsyncInvocations) \subseteq {async_client}
    /\ async_client # NoClient => ConstructedOf("AsyncCambAI") = {async_client}

\* C28, its last part: once set, the cached sync client is never replaced
C28_SyncClientNeverReplaced ==
    [][sync_client # NoClient => sync_client' = sync_client]_vars

----------------------------------------------------------------------------
\* What the claims speak of, read off the response whose body was returned

\* the responses that variant p was answered with
Answers(p) ==
    {requests[p][k].response : k \in 1 .. Len(requests[p])}

\* the resolver of variant p has returned bytes
ReturnedAudio(p) ==
    /\ pc[p] \in {"format", "end"}
    /\ audio[p] # NotYet
    /\ audio[p].data # << >>

\* C29: the bytes the resolver returns, when it returns any, are the body of
\* a response it was answered with whose status code was 200.
C29_AudioOnlyFrom200 ==
    \A p \in Variants :
        ReturnedAudio(p) =>
            \E response \in Answers(p) :
                /\ response.kind = "response"
                /\ response.status_code = 200
                /\ response.content = audio[p].data

\* the part of C29 that holds: the body of a non-200 answer of the
\* tts-result endpoint is never what is returned as that path's audio
C29_PrimaryAudioOnlyFrom200 ==
    \A p \in Variants :
        (ReturnedAudio(p) /\ ~FallbackRequested(p)) =>
            /\ PrimaryAnswered(p)
            /\ requests[p][1].response.status_code = 200
            /\ requests[p][1].response.content = audio[p].data

----------------------------------------------------------------------------
\* What the claims speak of, read off the audio-separation submit call

\* the create_audio_separation calls that variant p made
SeparationSubmits(p) ==
    {sdk[p][k] : k \in {i \in 1 .. Len(sdk[p]) :
                           sdk[p][i].method = "create_audio_separation"}}

\* the keyword arguments hold the value under the key
Passes(kwargs, key, text) == key \in DOMAIN kwargs /\ kwargs[key] = text

\* C30: the create_audio_separation call of an invocation whose input has
\* audio_file_path set passes the opened file as media_file, the one of an
\* invocation whose input has audio_url alone passes that URL, and none is
\* made with no audio source among its arguments.
C30_SubmitCarriesSource ==
    \A p \in Variants :
        \A call \in SeparationSubmits(p) :
            /\ DOMAIN call.kwargs # {}
            /\ IF TruthyStr(args[p].audio_file_path)
               THEN Passes(call.kwargs, "media_file", args[p].audio_file_path.s)
               ELSE Passes(call.kwargs, "audio_url", args[p].audio_url.s)

\* the part of C30 that holds: with audio_file_path set the opened file is
\* passed as media_file
C30_SubmitCarriesFile ==
    \A p \in Variants :
        \A call \in SeparationSubmits(p) :
            TruthyStr(args[p].audio_file_path) =>
                Passes(call.kwargs, "media_file", args[p].audio_file_path.s)

====
